---- MODULE Spec2Model ----
(***************************************************************************)
(* Model of jobsched: the `run` command (cli.command_run), the job graph   *)
(* construction (jobs.JobList) and the recursive scheduling algorithm      *)
(* (jobs.Job.schedule_tree), together with the run ledger, the run-state   *)
(* resolver (jobs.get_run_state) and the executors (executors.py).         *)
(*                                                                         *)
(* The program is sequential.  One invocation of `jobsched run` is a run   *)
(* of the recursion; the model keeps the Python call stack in `stack` and  *)
(* takes one step per external call (resolver query, init script, submit)  *)
(* or per control transfer (call of / return from a dependency).           *)
(* Everything the outside world decides (scheduler status, success of a    *)
(* subprocess, iteration order of a frozenset) is a nondeterministic       *)
(* choice.                                                                 *)
(***************************************************************************)
EXTENDS Integers, Sequences, FiniteSets, TLC

(***************************************************************************)
(* Bounds of the model.                                                    *)
(***************************************************************************)
\* number of values of the enumerated parameter "a" (settings.foreach.a)
MaxA == 2
\* number of `jobsched run` invocations in one behaviour
MaxInvocations == 2
\* the arguments of `jobsched runid`: the digits up to this one
MaxRunidArgument == 2

(***************************************************************************)
(* jobs.JobState                                                           *)
(***************************************************************************)
DONE == 0
WAITING == 1
FAILED == 2
RUNNING == 3
\* not a JobState: get_run_state raised instead of returning
RAISED == 4

(***************************************************************************)
(* Parameter combinations (parameters.py).  A combination is a function    *)
(* from parameter names to values; ParameterValues hashes and compares by  *)
(* its items, which is function equality.                                  *)
(***************************************************************************)
EmptyCombination == [k \in {} |-> 0]

\* parameters.dictunion
dictunion(a, b) ==
    [k \in (DOMAIN a) \cup (DOMAIN b) |-> IF k \in DOMAIN b THEN b[k] ELSE a[k]]

\* settings["foreach"] of the modelled jobs.yml, in document order
\* (grouped: the elements of the enumeration are dicts, parameters.py 44)
SettingsForeach ==
    << [key |-> "a", grouped |-> FALSE, values |-> [i \in 1..MaxA |-> i]] >>

\* [dictunion(a, {k: b}) for a in combinations for b in v]
RECURSIVE CrossProduct(_, _, _)
CrossProduct(combinations, k, v) ==
    IF combinations = <<>> THEN <<>>
    ELSE [i \in 1..Len(v) |-> dictunion(Head(combinations), [x \in {k} |-> v[i]])]
         \o CrossProduct(Tail(combinations), k, v)

\* [dictunion(a, b) for a in combinations for b in v]
RECURSIVE GroupProduct(_, _)
GroupProduct(combinations, v) ==
    IF combinations = <<>> THEN <<>>
    ELSE [i \in 1..Len(v) |-> dictunion(Head(combinations), v[i])]
         \o GroupProduct(Tail(combinations), v)

\* v[0] of an empty enumeration raises IndexError
ConstructorRaises(enums) == \E i \in 1..Len(enums) : enums[i].values = <<>>

\* a constructor that takes every enumeration for a scalar one
RECURSIVE ParameterCombinations_AllScalar(_)
ParameterCombinations_AllScalar(enums) ==
    IF enums = <<>> THEN << EmptyCombination >>
    ELSE CrossProduct(ParameterCombinations_AllScalar(SubSeq(enums, 1, Len(enums) - 1)),
                      enums[Len(enums)].key, enums[Len(enums)].values)

\* ParameterCombinations.__init__ for a mapping of enumerations none of which
\* is empty
RECURSIVE ParameterCombinations(_)
ParameterCombinations(enums) ==
    IF enums = <<>> THEN << EmptyCombination >>
    ELSE LET prev == ParameterCombinations(SubSeq(enums, 1, Len(enums) - 1))
             last == enums[Len(enums)]
         IN  IF last.grouped THEN GroupProduct(prev, last.values)
             ELSE CrossProduct(prev, last.key, last.values)

\* the shared ParameterCombinations instance of an invocation
Possible == ParameterCombinations(SettingsForeach)

\* a recombination that keeps the combinations that disagree with values
recombine_Unfiltered(combinations, values, freekeys) ==
    { [key \in (DOMAIN values) \cup freekeys |-> combinations[i][key]] :
        i \in 1..Len(combinations) }

\* ParameterCombinations.recombine
recombine(combinations, values, freekeys) ==
    { [key \in (DOMAIN values) \cup freekeys |-> combinations[i][key]] :
        i \in { n \in 1..Len(combinations) :
                  \A k \in DOMAIN values : values[k] = combinations[n][k] } }

(***************************************************************************)
(* The job definitions of the modelled jobs.yml.                           *)
(*   uses    : variables left unresolved by the job's parameter templates  *)
(*             (Job.variables after Job.__init__)                          *)
(*   depends : the (job, foreach) dependency references, in order          *)
(*   init    : the job has init scripts                                    *)
(*   props   : the keys of the definition                                  *)
(* A depends on D and on B, B depends on D: D is reachable from A through  *)
(* two dependency paths.  D references no variable: it has the single,     *)
(* empty combination, which every combination of A and of B depends on.    *)
(* E is a definition that sets the array flag.                             *)
(***************************************************************************)
JobDescs ==
    [ A |-> [ uses |-> {"a"}, init |-> TRUE,
              depends |-> << [job |-> "D", foreach |-> {}],
                             [job |-> "B", foreach |-> {"a"}] >>,
              props |-> {"code", "depends", "init", "parameters"} ],
      B |-> [ uses |-> {"a"}, init |-> FALSE,
              depends |-> << [job |-> "D", foreach |-> {}] >>,
              props |-> {"code", "depends", "parameters"} ],
      D |-> [ uses |-> {}, init |-> TRUE,
              depends |-> << >>,
              props |-> {"code", "init"} ],
      E |-> [ uses |-> {"a"}, init |-> FALSE,
              depends |-> << >>,
              props |-> {"code", "parameters", "array"} ] ]

JobNames == DOMAIN JobDescs

\* jobs.VALID_JOB_PROPERTIES
VALID_JOB_PROPERTIES ==
    { "code", "depends", "epilog", "filename", "foreach", "init", "output",
      "parameters", "prolog", "scheduler", "settings", "time", "workdir" }

\* Job.__init__, lines 241-243: the definition has only valid properties
ValidJobDesc(jobname) == JobDescs[jobname].props \subseteq VALID_JOB_PROPERTIES

\* Job.__init__, line 295: self.array = jobdesc.get("array", False)
JobArray(jobname) == "array" \in JobDescs[jobname].props

\* Job.__init__, lines 269-285: self.variables
JobVariables(jobname) == JobDescs[jobname].uses

\* JobList._setup_job: builds the Job objects of the dependency tree, the
\* dependencies first; `slices` are the job names whose ledger slice was
\* looked up or created before construction succeeded or raised.
RECURSIVE SetupJob(_), SetupDependencies(_, _)
SetupDependencies(depends, acc) ==
    IF depends = <<>> \/ ~acc.ok THEN acc
    ELSE LET r == SetupJob(Head(depends).job)
         IN  SetupDependencies(Tail(depends),
                 [ok |-> r.ok, slices |-> acc.slices \cup r.slices])

SetupJob(jobname) ==
    LET d == SetupDependencies(JobDescs[jobname].depends,
                               [ok |-> TRUE, slices |-> {}])
    IN  IF ~d.ok THEN d
        ELSE [ok |-> ValidJobDesc(jobname), slices |-> d.slices \cup {jobname}]

\* The Job objects built by _setup_job(root), named by their path from the
\* root (the sequence of dependency indices).  A job reachable through two
\* paths is built twice: two Job objects, each with its own scheduled_runs.
RECURSIVE Instances(_)
Instances(jobname) ==
    {<<>>} \cup
    UNION { { <<i>> \o p : p \in Instances(JobDescs[jobname].depends[i].job) } :
            i \in 1..Len(JobDescs[jobname].depends) }

(***************************************************************************)
(* Run identifiers.  The code handles them as strings; the model keeps the *)
(* parts the code looks at: the literal "local", the number a cluster      *)
(* returns, the quoted job name the stub executors return, and the array   *)
(* index suffix "_<idx>" (idx = -1: no suffix).                            *)
(***************************************************************************)
NoSuffix == -1
LocalId == [num |-> 0, name |-> "local", c |-> EmptyCombination, idx |-> NoSuffix]
ClusterId(n) == [num |-> n, name |-> "", c |-> EmptyCombination, idx |-> NoSuffix]
StubId(jobname, c) == [num |-> 0, name |-> jobname, c |-> c, idx |-> NoSuffix]
\* f"{run_id}_{i}" (schedule_tree, line 605)
ArrayRunId(run_id, i) == [run_id EXCEPT !.idx = i]
\* run_id.split("_")[0] (schedule_run, line 334)
CutSuffix(run_id) == [run_id EXCEPT !.idx = NoSuffix]
\* int(run_id) succeeds (get_run_state, line 95): the identifier is the number
\* a cluster returned, with or without the index of an array run, since int()
\* takes "1_0" for the number 10 (an underscore between digits is a digit
\* separator); "local" and the quoted names of the stub executors are no
\* numbers
IsNumber(run_id) == run_id.name = ""

\* Job.schedule_run, lines 328-339: the dependency constraint, as the set
\* that is sorted and joined with ":"
DependencyConstraint(dep_run_ids) ==
    { CutSuffix(run_id) : run_id \in { r \in dep_run_ids : r # LocalId } }

(***************************************************************************)
(* The run-state resolver.                                                 *)
(***************************************************************************)
\* jobs.SLURM_JOB_STATE_IDS
SLURM_JOB_STATE_IDS ==
    [ code \in {0, 1, 2, 3, 4, 5, 6, 7, 8, 10} |->
        CASE code \in {0, 2, 8} -> WAITING
          [] code = 1 -> RUNNING
          [] code = 3 -> DONE
          [] OTHER -> FAILED ]

\* what the accounting database can hold as a job's state (pyslurm)
SlurmdbStates == 0..11
\* what `sacct -nP -o state` can print in its first line
SacctStates ==
    { "", "PENDING", "RUNNING", "FAILED", "CANCELLED", "TIMEOUT",
      "OUT_OF_MEMORY", "COMPLETED", "NODE_FAIL" }

\* get_run_state, lines 106-121: the state for sacct's answer
SacctState(res) ==
    IF res = "" THEN WAITING
    ELSE IF res = "PENDING" THEN WAITING
    ELSE IF res = "RUNNING" THEN RUNNING
    ELSE IF res \in {"FAILED", "CANCELLED", "TIMEOUT", "OUT_OF_MEMORY"} THEN FAILED
    ELSE IF res = "COMPLETED" THEN DONE
    ELSE RAISED

\* a resolver that asks the scheduler for "local" too
get_run_state_AskingForLocal(run_id, pyslurm, raw) ==
    IF pyslurm
    THEN IF IsNumber(run_id) /\ raw \in DOMAIN SLURM_JOB_STATE_IDS
         THEN SLURM_JOB_STATE_IDS[raw]
         ELSE RAISED
    ELSE SacctState(raw)

\* get_run_state: `raw` is the answer of the external scheduler
get_run_state(run_id, pyslurm, raw) ==
    IF run_id = LocalId THEN DONE
    ELSE IF pyslurm
         THEN IF IsNumber(run_id) /\ raw \in DOMAIN SLURM_JOB_STATE_IDS
              THEN SLURM_JOB_STATE_IDS[raw]
              ELSE RAISED
         ELSE SacctState(raw)

RawStates(pyslurm) == IF pyslurm THEN SlurmdbStates ELSE SacctStates

(***************************************************************************)
(* State.                                                                  *)
(***************************************************************************)
VARIABLES
    usePyslurm,     \* jobs.USE_PYSLURM / executors.USE_PYSLURM of the installation
    runfile,        \* the run file: its kind, what it holds and how it is open
    disk,           \* the ledger in the run file
    nextId,         \* the cluster's counter: the next job id it hands out
    inv,            \* number of invocations started
    pc,             \* "idle", "run", "done" (command_run returned), "aborted" (it raised)
    executor,       \* the executor command_run chose
    former_runs,    \* JobList.former_runs: the ledger in memory
    scheduled_runs, \* Job.scheduled_runs of every Job object
    stack,          \* the schedule_tree calls in progress, innermost last
    prompt,         \* "" or the tool whose failure waits at input("Press enter...")
    schedCalls,     \* history: Executor.schedule calls of this invocation per (job, c)
    queried,        \* history: (job, c) whose run state was queried in this invocation
    visited,        \* history: (job, c) the loop of schedule_tree has visited in this invocation
    doneIds,        \* history: run identifiers of the ledger the resolver reported DONE for
    last,           \* history: the latest step of schedule_tree and what it did
    call            \* a function of the program applied on its own: its arguments and result

vars == << usePyslurm, runfile, disk, nextId, inv, pc, executor, former_runs,
           scheduled_runs, stack, prompt, schedCalls, queried, visited, doneIds,
           last, call >>

\* cli.command_run, lines 124-131: --debug, --dry, --local or none of them
ExecutorKinds == {"debug", "dry", "local", "slurm"}

\* cli.load_runfile: the run file of the installation (--runfile) is a shelf
\* (the default jobs.run) or a file *.yml.
\*   holds : "shelf", or for a file *.yml "missing", "empty" (no document:
\*           the loader returns None), "mapping" (a mapping written by hand)
\*           and "dumped" (what line 146 has written)
\*   mode  : how the invocation holds it open: "" (not open), "shelf", "r", "w"
Shelf == [yml |-> FALSE, holds |-> "shelf", mode |-> ""]
YmlFile(holds) == [yml |-> TRUE, holds |-> holds, mode |-> ""]
\* the run files an installation starts with; a file *.yml that exists holds
\* the text "{}"
RunFiles == { Shelf, YmlFile("missing"), YmlFile("mapping") }

EmptyLedger == [j \in {} |-> 0]
NoEntries == [c \in {} |-> 0]

NoStep == [kind |-> "none", inst |-> <<>>, job |-> "", c |-> EmptyCombination,
           forcestart |-> FALSE, state |-> DONE, asked |-> FALSE,
           before |-> {}, id |-> LocalId, ids |-> {}, count |-> 0,
           deps |-> {}, eligible |-> FALSE, init |-> FALSE, at |-> "",
           events |-> <<>>, workdir |-> EmptyCombination]

\* no function is applied on its own
NoCall == [fn |-> "none"]

\* the state of the installation before the first invocation
FreshInvocation ==
    /\ disk = EmptyLedger
    /\ nextId = 1
    /\ inv = 0
    /\ pc = "idle"
    /\ executor = "none"
    /\ former_runs = EmptyLedger
    /\ scheduled_runs = [p \in {} |-> 0]
    /\ stack = <<>>
    /\ prompt = ""
    /\ schedCalls = [x \in {} |-> 0]
    /\ queried = {}
    /\ visited = {}
    /\ doneIds = {}
    /\ last = NoStep

\* the installation with the default run file
Fresh ==
    /\ runfile = Shelf
    /\ FreshInvocation

Init ==
    /\ call = NoCall
    /\ usePyslurm \in BOOLEAN
    /\ runfile \in RunFiles
    /\ FreshInvocation

\* the variables of an invocation
invocation == << usePyslurm, runfile, disk, nextId, inv, pc, executor, former_runs,
                 scheduled_runs, stack, prompt, schedCalls, queried, visited,
                 doneIds, last >>

Top == stack[Len(stack)]
SetTop(f) == [stack EXCEPT ![Len(stack)] = f]

\* the ledger entry of (jobname, c), as a set: empty when there is none
Entry(ledger, jobname, c) ==
    IF jobname \in DOMAIN ledger /\ c \in DOMAIN ledger[jobname]
    THEN {ledger[jobname][c]} ELSE {}

\* a slice that is replaced by the entry written
PutEntry_Alone(ledger, jobname, c, entry) ==
    [ledger EXCEPT ![jobname] = [x \in {c} |-> entry]]

\* an entry written to the slice of the requested job
PutEntry_InRequested(ledger, jobname, c, entry) ==
    [ledger EXCEPT ![stack[1].job] =
        [x \in (DOMAIN ledger[stack[1].job]) \cup {c} |->
            IF x = c THEN entry ELSE ledger[stack[1].job][x]]]

\* former_runs[c] = entry on the slice of jobname
PutEntry(ledger, jobname, c, entry) ==
    [ledger EXCEPT ![jobname] =
        [x \in (DOMAIN ledger[jobname]) \cup {c} |->
            IF x = c THEN entry ELSE ledger[jobname][x]]]

\* Job.schedule_tree, lines 501-507: the frame of a call
NewFrame(inst, jobname, current, forcestart) ==
    LET cur == [k \in (DOMAIN current) \cap JobVariables(jobname) |-> current[k]]
    IN  [ inst |-> inst, job |-> jobname, forcestart |-> forcestart,
          todo |-> recombine(Possible, cur, JobVariables(jobname) \ DOMAIN cur),
          phase |-> "loop", c |-> EmptyCombination, state |-> DONE,
          dep |-> 1, dep_run_ids |-> {}, run_ids |-> {},
          all_combinations |-> <<>>, all_dependencies |-> {},
          workdir |-> EmptyCombination, before |-> {}, events |-> <<>> ]

\* the frame at the head of the loop: the locals of the pass that has ended
\* (c, state, dep_run_ids) are assigned anew before they are read again
LoopHead(f) ==
    [f EXCEPT !.phase = "loop", !.c = EmptyCombination, !.state = DONE,
              !.dep = 1, !.dep_run_ids = {}, !.before = {}, !.events = <<>>]

\* the run identifiers a ledger holds
LedgerIds(ledger) ==
    UNION { { ledger[j][c].id : c \in DOMAIN ledger[j] } : j \in DOMAIN ledger }

Calls(jobname, c) ==
    IF <<jobname, c>> \in DOMAIN schedCalls THEN schedCalls[<<jobname, c>>] ELSE 0

\* one more Executor.schedule call that covers the combinations cs of jobname
CountCalls(jobname, cs) ==
    [x \in (DOMAIN schedCalls) \cup { <<jobname, c>> : c \in cs } |->
        IF x[1] = jobname /\ x[2] \in cs
        THEN Calls(x[1], x[2]) + 1 ELSE schedCalls[x]]

(***************************************************************************)
(* The executors (executors.py).                                           *)
(***************************************************************************)
\* Executor.init: subprocess.check_output raises on a non-zero exit; the
\* stub executors only print
InitResults(ex) == IF ex \in {"local", "slurm"} THEN {"ok", "raise"} ELSE {"ok"}

\* Executor.schedule: LocalExecutor raises when the job fails, the pyslurm
\* path of SlurmExecutor raises when the submission fails; the sbatch path
\* asks the operator after a failed sbatch and tries again, and raises when
\* sbatch cannot be started (line 112), when the operator's answer cannot
\* be read (line 123, end of file) and when the delay after the submission
\* is negative (line 124); the stub executors only print
ScheduleResults(ex, pyslurm) ==
    IF ex \in {"local", "slurm"} THEN {"ok", "raise"} ELSE {"ok"}

\* SlurmExecutor.schedule, lines 101-125: the cluster's counter after a call
\* that raised: the exception has left the call before the submission, or
\* after it (time.sleep, line 124): the cluster has the job then
CounterAfterRaise(ex, n) == IF ex = "slurm" THEN {n, n + 1} ELSE {n}

\* the run identifier Executor.schedule returns for a job named after
\* (jobname, c), when the cluster would hand out the number n
ScheduledId(ex, jobname, c, n) ==
    IF ex = "local" THEN LocalId
    ELSE IF ex = "slurm" THEN ClusterId(n)
    ELSE StubId(jobname, c)

\* cli.command_run, line 143: the run file is written
SavesLedger(ex) == ex \notin {"debug", "dry", "local"}

\* cli.load_runfile, lines 35-46: the run file as the invocation holds it: the
\* shelf is opened, a missing file *.yml is created empty and opened for
\* writing, an existing one is opened for reading
OpenRunfile(rf) ==
    IF ~rf.yml THEN [rf EXCEPT !.mode = "shelf"]
    ELSE IF rf.holds = "missing" THEN [rf EXCEPT !.holds = "empty", !.mode = "w"]
    ELSE [rf EXCEPT !.mode = "r"]

\* lines 39 and 45: what load_runfile returns is a mapping; for a file *.yml
\* without document round_trip_load returns None
LoadsLedger(rf) == ~(rf.yml /\ rf.holds = "empty")

\* lines 145-148: the ledger can be written to the file object: write() on
\* a file opened for reading raises io.UnsupportedOperation
WritesRunfile(rf) == rf.mode # "r"

\* line 149: the run file after the ledger was written and the file closed
WrittenRunfile(rf) == IF rf.yml THEN [rf EXCEPT !.holds = "dumped"] ELSE rf

\* lines 112-120: without "account" in the settings slurm-bestaccount is run,
\* unless --debug is given; check_output raises when it fails
AccountResults(ex) == IF ex = "debug" THEN {"ok"} ELSE {"ok", "raise"}

\* a job name the configuration does not define
NoJob == "Z"

(***************************************************************************)
(* cli.command_run up to the call of schedule_tree.                        *)
(***************************************************************************)
\* lines 104-139.  The run file is loaded (104), the account is looked up
\* (112-120), JobList.get_job resolves the job (136: a name without
\* definition raises in _add_inheritance, a ledger that is None raises in
\* _setup_job at the test of jobs.py 220, an unknown property raises in
\* Job.__init__) and the executor is opened.  An invocation on a file *.yml
\* that line 146 has written is not followed: what pyaml.dump writes for the
\* ledger and what the loader makes of it is not in the source.
Start(jobname, force, ex) ==
    /\ UNCHANGED call
    /\ pc = "idle"
    /\ inv < MaxInvocations
    /\ runfile.holds # "dumped"
    /\ inv' = inv + 1
    /\ executor' = ex
    /\ runfile' = OpenRunfile(runfile)
    /\ doneIds' = doneIds \cap LedgerIds(disk)
    /\ \E account \in AccountResults(ex) :
       LET known == jobname \in JobNames
           built == IF known THEN SetupJob(jobname) ELSE [ok |-> FALSE, slices |-> {}]
           at == IF account = "raise" THEN "account"
                 ELSE IF ~known THEN "unknown"
                 ELSE IF ~LoadsLedger(runfile) THEN "runfile"
                 ELSE IF ~built.ok THEN "config"
                 ELSE "start"
           slices == IF at \in {"config", "start"} THEN built.slices ELSE {}
       IN  /\ former_runs' =
                 IF LoadsLedger(runfile)
                 THEN [j \in (DOMAIN disk) \cup slices |->
                          IF j \in DOMAIN disk THEN disk[j] ELSE NoEntries]
                 ELSE EmptyLedger
           /\ IF at = "start"
              THEN /\ pc' = "run"
                   /\ stack' = << NewFrame(<<>>, jobname, EmptyCombination, force) >>
                   /\ scheduled_runs' = [p \in Instances(jobname) |-> NoEntries]
              ELSE /\ pc' = "aborted"
                   /\ stack' = <<>>
                   /\ scheduled_runs' = [p \in {} |-> 0]
           /\ last' = [NoStep EXCEPT !.kind = at,
                                     !.job = jobname, !.forcestart = force]
    /\ prompt' = ""
    /\ schedCalls' = [x \in {} |-> 0]
    /\ queried' = {}
    /\ visited' = {}
    /\ UNCHANGED << usePyslurm, disk, nextId >>

(***************************************************************************)
(* Job.schedule_tree                                                       *)
(***************************************************************************)
\* a resolver that is asked for every stored run of another pass, the
\* successful ones too
NeedsState_IgnoringSuccess(f, c) ==
    /\ Entry(former_runs, f.job, c) # {}
    /\ c \notin DOMAIN scheduled_runs[f.inst]

\* line 510-514: the stored run has to be asked for
NeedsState(f, c) ==
    LET e == Entry(former_runs, f.job, c)
    IN  /\ e # {}
        /\ c \notin DOMAIN scheduled_runs[f.inst]
        /\ \A x \in e : ~x.success

\* a reconciliation that marks every run that has not failed
MarksSuccess_NotFailed(state) == state # FAILED

\* a reconciliation that never marks a run
MarksSuccess_Never(state) == FALSE

\* line 517: a run that is DONE is marked successful
MarksSuccess(state) == state = DONE

\* a failed run that is not recognised
has_failed_Never(state) == FALSE

\* a waiting run that is taken for a failed one
has_failed_OrWaiting(state) == state \in {FAILED, WAITING}

\* line 574
has_failed(state) == state = FAILED

\* line 575
already_scheduled(f) ==
    Entry(former_runs, f.job, f.c) # {} \/ f.c \in DOMAIN scheduled_runs[f.inst]

\* an eligibility test that finds every combination eligible
Eligible_Always(f) == TRUE

\* an eligibility test that forgets the force flag
Eligible_IgnoringForce(f) == has_failed(f.state) \/ ~already_scheduled(f)

\* line 577
Eligible(f) == has_failed(f.state) \/ f.forcestart \/ ~already_scheduled(f)

\* init scripts that are run for a failed run too
RunsInit_AlsoWhenFailed(f) == JobDescs[f.job].init

\* line 578: the init scripts are run
RunsInit(f) == f.state # FAILED /\ JobDescs[f.job].init

\* history: what a pass of the loop has done for its combination so far,
\* "init" for the init scripts and the job name of every dependency whose
\* schedule_tree has returned
InitEvents(f) == IF RunsInit(f) THEN << "init" >> ELSE <<>>

\* an exception that is caught and lets the pass go on
Raise_Continue(step, at) ==
    /\ pc' = pc
    /\ last' = [step EXCEPT !.kind = "raise", !.at = at]

\* the step that aborts the invocation: the exception leaves command_run
Raise(step, at) ==
    /\ pc' = "aborted"
    /\ last' = [step EXCEPT !.kind = "raise", !.at = at]

\* what the external scheduler can answer when the stored run of c is asked for
RawChoices(f, c) ==
    IF NeedsState(f, c) /\ former_runs[f.job][c].id # LocalId
    THEN RawStates(usePyslurm)
    ELSE {CHOOSE x \in RawStates(usePyslurm) : TRUE}

\* lines 509-579: one pass of the loop for combination c, up to the
\* dependencies: the stored run is reconciled with the resolver (509-519), the
\* working directory is rendered and created through Executor.init when it
\* is missing (541-546), the combination is found eligible or not (574-577,
\* 594-595) and the init scripts of an eligible one are run (578-579).
\*   raw    : the external scheduler's answer, if it is asked
\*   mkdir  : how the creation of a missing working directory ends
\*   result : how the init scripts end
Visit(c) ==
    /\ UNCHANGED call
    /\ pc = "run" /\ prompt = ""
    /\ Top.phase = "loop"
    /\ c \in Top.todo
    /\ \E raw \in RawChoices(Top, c) :
       LET f == Top
           e == Entry(former_runs, f.job, c)
           ask == NeedsState(f, c)
           stored == IF e = {} THEN LocalId ELSE (CHOOSE x \in e : TRUE).id
           state == IF ask THEN get_run_state(stored, usePyslurm, raw) ELSE DONE
           g == [f EXCEPT !.todo = @ \ {c}, !.c = c, !.state = state,
                          !.before = e, !.dep = 1,
                          !.dep_run_ids = {}, !.workdir = c]
           step == [NoStep EXCEPT !.kind = "visit", !.inst = f.inst, !.job = f.job,
                                  !.c = c, !.forcestart = f.forcestart, !.state = state,
                                  !.asked = ask, !.before = e, !.id = stored,
                                  !.eligible = Eligible(g),
                                  !.init = Eligible(g) /\ RunsInit(g)]
       IN  /\ queried' = IF ask THEN queried \cup {<<f.job, c>>} ELSE queried
           /\ visited' = visited \cup {<<f.job, c>>}
           /\ IF state = RAISED
              THEN /\ Raise(step, "resolver")
                   /\ UNCHANGED << former_runs, stack, doneIds >>
              ELSE /\ doneIds' = IF ask /\ state = DONE
                                 THEN doneIds \cup {stored} ELSE doneIds
                   /\ former_runs' =
                        IF ask /\ MarksSuccess(state)
                        THEN [former_runs EXCEPT ![f.job][c].success = TRUE]
                        ELSE former_runs
                   /\ \/ /\ "raise" \in InitResults(executor)
                         /\ Raise([step EXCEPT !.init = FALSE], "mkdir")
                         /\ stack' = SetTop([g EXCEPT !.phase = "workdir"])
                      \/ /\ ~Eligible(g)
                         /\ pc' = pc
                         /\ last' = [step EXCEPT !.kind = "skip"]
                         /\ stack' = SetTop(LoopHead([g EXCEPT
                                                !.run_ids = @ \cup {stored}]))
                      \/ /\ Eligible(g)
                         /\ RunsInit(g)
                         /\ "raise" \in InitResults(executor)
                         /\ Raise(step, "init")
                         /\ stack' = SetTop([g EXCEPT !.phase = "init",
                                                      !.events = InitEvents(g)])
                      \/ /\ Eligible(g)
                         /\ pc' = pc
                         /\ last' = [step EXCEPT !.events = InitEvents(g)]
                         /\ stack' = SetTop([g EXCEPT !.phase = "deps",
                                                      !.events = InitEvents(g)])
    /\ UNCHANGED << usePyslurm, runfile, disk, nextId, inv, executor, scheduled_runs,
                    prompt, schedCalls >>

\* line 583: the projection passed to a dependency
Projection(c, foreach) == [k \in (DOMAIN c) \cap foreach |-> c[k]]

\* a call that hands the force flag on to the dependencies
DependencyForce_HandedOn(f) == f.forcestart

\* lines 499 and 582-584: dep.schedule_tree is called without forcestart,
\* which defaults to False
DependencyForce(f) == FALSE

\* lines 581-584: the call of the next dependency's schedule_tree
CallDependency ==
    /\ UNCHANGED call
    /\ pc = "run" /\ prompt = ""
    /\ Top.phase = "deps"
    /\ Top.dep <= Len(JobDescs[Top.job].depends)
    /\ LET f == Top
           d == JobDescs[f.job].depends[f.dep]
       IN  /\ stack' = Append(stack, NewFrame(f.inst \o <<f.dep>>, d.job,
                                              Projection(f.c, d.foreach),
                                              DependencyForce(f)))
           /\ last' = [NoStep EXCEPT !.kind = "call", !.inst = f.inst \o <<f.dep>>,
                                     !.job = d.job, !.c = Projection(f.c, d.foreach)]
    /\ UNCHANGED << usePyslurm, runfile, disk, nextId, inv, pc, executor, former_runs,
                    scheduled_runs, prompt, schedCalls, queried, visited, doneIds >>

\* a working directory rendered once, without the combination of the pass
SubmissionWorkdir_Unrendered(f) == EmptyCombination

\* lines 590 and 602: the working directory handed to Job.schedule_run, the
\* one the latest pass of the loop has rendered (lines 541-544)
SubmissionWorkdir(f) == f.workdir

\* a ledger that is written before Job.schedule_run is called
LedgerOnRaise_Written(ledger, jobname, c, run_id) ==
    PutEntry(ledger, jobname, c, [id |-> run_id, success |-> FALSE])

\* lines 590-592: Job.schedule_run raises before the assignment of line 592
\* is reached: the ledger the raise leaves behind
LedgerOnRaise(ledger, jobname, c, run_id) == ledger

\* lines 590-593: the ledger entry written for a submitted combination
SubmittedEntry(run_id) == [id |-> run_id, success |-> FALSE]

\* lines 585-593: all dependencies are scheduled; the combination is added to
\* the array batch, or submitted through Job.schedule_run and recorded
ScheduleRun(result) ==
    /\ UNCHANGED call
    /\ pc = "run" /\ prompt = ""
    /\ Top.phase = "deps"
    /\ Top.dep > Len(JobDescs[Top.job].depends)
    /\ LET f == Top
           run_id == ScheduledId(executor, f.job, f.c, nextId)
           step == [NoStep EXCEPT !.kind = "schedule", !.inst = f.inst, !.job = f.job,
                                  !.c = f.c, !.forcestart = f.forcestart,
                                  !.state = f.state, !.before = f.before,
                                  !.id = run_id, !.count = 1,
                                  !.deps = DependencyConstraint(f.dep_run_ids),
                                  !.init = "init" \in { f.events[i] : i \in 1..Len(f.events) },
                                  !.events = f.events,
                                  !.workdir = SubmissionWorkdir(f)]
       IN  IF JobArray(f.job)
           THEN /\ result = "ok"
                /\ stack' = SetTop(LoopHead([f EXCEPT
                       !.all_combinations = Append(@, f.c),
                       !.all_dependencies = @ \cup f.dep_run_ids]))
                /\ last' = [step EXCEPT !.kind = "batch", !.count = 0]
                /\ UNCHANGED << disk, nextId, pc, former_runs, scheduled_runs,
                                schedCalls >>
           ELSE /\ schedCalls' = CountCalls(f.job, {f.c})
                /\ IF result = "raise"
                   THEN /\ Raise(step, "schedule")
                        /\ former_runs' = LedgerOnRaise(former_runs, f.job, f.c, run_id)
                        /\ nextId' \in CounterAfterRaise(executor, nextId)
                        /\ UNCHANGED << disk, scheduled_runs, stack >>
                   ELSE /\ pc' = pc
                        /\ last' = step
                        /\ nextId' = IF executor = "slurm" THEN nextId + 1 ELSE nextId
                        /\ former_runs' = PutEntry(former_runs, f.job, f.c,
                                                   SubmittedEntry(run_id))
                        /\ scheduled_runs' =
                             [scheduled_runs EXCEPT ![f.inst] =
                                 [x \in (DOMAIN @) \cup {f.c} |->
                                     IF x = f.c THEN run_id ELSE @[x]]]
                        /\ stack' = SetTop(LoopHead([f EXCEPT
                                                !.run_ids = @ \cup {run_id}]))
                        /\ disk' = disk
    /\ UNCHANGED << usePyslurm, runfile, inv, executor, prompt, queried, visited, doneIds >>

\* line 597
ArraySubmission(f) == JobArray(f.job) /\ f.all_combinations # <<>>

\* Job.schedule_run, lines 347-349: the items all batched combinations share
Common(cs) ==
    LET first == CHOOSE c \in cs : TRUE
        keys == { k \in DOMAIN first :
                    \A c \in cs : k \in DOMAIN c /\ c[k] = first[k] }
    IN  [k \in keys |-> first[k]]

\* lines 597-609: the end of a schedule_tree call: for an array job with a
\* batch the single submission and its ledger entries; then the result
EndOfLoop(f, result) ==
    IF ~ArraySubmission(f)
    THEN [raised |-> FALSE, former |-> former_runs, scheduled |-> scheduled_runs,
          run_ids |-> f.run_ids, nextId |-> nextId, calls |-> schedCalls,
          count |-> 0, deps |-> {}]
    ELSE LET all == f.all_combinations
             cs == { all[i] : i \in 1..Len(all) }
             run_id == ScheduledId(executor, f.job, Common(cs), nextId)
             pos(c) == CHOOSE i \in 1..Len(all) : all[i] = c
         IN  [raised |-> result = "raise",
              former |-> [former_runs EXCEPT ![f.job] =
                            [x \in (DOMAIN @) \cup cs |->
                                IF x \in cs
                                THEN SubmittedEntry(ArrayRunId(run_id, pos(x) - 1))
                                ELSE @[x]]],
              scheduled |-> [scheduled_runs EXCEPT ![f.inst] =
                            [x \in (DOMAIN @) \cup cs |->
                                IF x \in cs THEN ArrayRunId(run_id, pos(x) - 1)
                                ELSE @[x]]],
              run_ids |-> f.run_ids \cup {run_id},
              nextId |-> IF executor = "slurm" THEN nextId + 1 ELSE nextId,
              calls |-> CountCalls(f.job, cs),
              count |-> Len(all),
              deps |-> DependencyConstraint(f.all_dependencies)]

\* lines 597-609 and 582: a dependency's schedule_tree returns its run_ids
Return(result) ==
    /\ UNCHANGED call
    /\ pc = "run" /\ prompt = ""
    /\ Len(stack) > 1
    /\ Top.phase = "loop" /\ Top.todo = {}
    /\ result \in (IF ArraySubmission(Top)
                   THEN ScheduleResults(executor, usePyslurm) ELSE {"ok"})
    /\ LET f == Top
           e == EndOfLoop(f, result)
           parent == stack[Len(stack) - 1]
           step == [NoStep EXCEPT !.kind = "return", !.inst = f.inst, !.job = f.job,
                                  !.c = parent.c, !.ids = e.run_ids,
                                  !.count = e.count, !.deps = e.deps,
                                  !.workdir = SubmissionWorkdir(f)]
       IN  /\ schedCalls' = e.calls
           /\ IF e.raised
              THEN /\ Raise(step, "schedule")
                   /\ nextId' \in CounterAfterRaise(executor, nextId)
                   /\ UNCHANGED << disk, former_runs, scheduled_runs, stack >>
              ELSE /\ pc' = pc
                   /\ last' = step
                   /\ former_runs' = e.former
                   /\ scheduled_runs' = e.scheduled
                   /\ nextId' = e.nextId
                   /\ disk' = disk
                   /\ stack' = [SubSeq(stack, 1, Len(stack) - 1)
                                  EXCEPT ![Len(stack) - 1] =
                                      [parent EXCEPT
                                          !.dep = @ + 1,
                                          !.dep_run_ids = @ \cup e.run_ids,
                                          !.events = Append(@, f.job)]]
    /\ UNCHANGED << usePyslurm, runfile, inv, executor, prompt, queried, visited, doneIds >>

\* cli.command_run, lines 140-149: the top-level schedule_tree returns, the
\* executor is closed and the ledger is written to the run file; the write
\* to a file *.yml that was opened for reading raises, after everything was
\* submitted
Finish(result) ==
    /\ UNCHANGED call
    /\ pc = "run" /\ prompt = ""
    /\ Len(stack) = 1
    /\ Top.phase = "loop" /\ Top.todo = {}
    /\ result \in (IF ArraySubmission(Top)
                   THEN ScheduleResults(executor, usePyslurm) ELSE {"ok"})
    /\ LET f == Top
           e == EndOfLoop(f, result)
           step == [NoStep EXCEPT !.kind = "finish", !.inst = f.inst, !.job = f.job,
                                  !.forcestart = f.forcestart, !.ids = e.run_ids,
                                  !.count = e.count, !.deps = e.deps,
                                  !.workdir = SubmissionWorkdir(f)]
       IN  /\ schedCalls' = e.calls
           /\ IF e.raised
              THEN /\ Raise(step, "schedule")
                   /\ nextId' \in CounterAfterRaise(executor, nextId)
                   /\ UNCHANGED << disk, former_runs, scheduled_runs, stack >>
                   /\ runfile' = runfile
              ELSE /\ former_runs' = e.former
                   /\ scheduled_runs' = e.scheduled
                   /\ nextId' = e.nextId
                   /\ stack' = stack
                   /\ IF ~SavesLedger(executor)
                      THEN /\ pc' = "done"
                           /\ last' = step
                           /\ UNCHANGED << disk, runfile >>
                      ELSE IF WritesRunfile(runfile)
                      THEN /\ pc' = "done"
                           /\ last' = step
                           /\ disk' = e.former
                           /\ runfile' = WrittenRunfile(runfile)
                      ELSE /\ Raise(step, "save")
                           /\ UNCHANGED << disk, runfile >>
    /\ UNCHANGED << usePyslurm, inv, executor, prompt, queried, visited, doneIds >>

(***************************************************************************)
(* The retry loops of the command line tools: a failing sacct or sbatch    *)
(* makes the program wait at input("Press enter...") and then try again.   *)
(***************************************************************************)
\* get_run_state, lines 98-105
SacctFails ==
    /\ UNCHANGED call
    /\ pc = "run" /\ prompt = ""
    /\ ~usePyslurm
    /\ Top.phase = "loop"
    /\ \E c \in Top.todo :
          /\ NeedsState(Top, c)
          /\ former_runs[Top.job][c].id # LocalId
    /\ prompt' = "sacct"
    /\ UNCHANGED << usePyslurm, runfile, disk, nextId, inv, pc, executor, former_runs,
                    scheduled_runs, stack, schedCalls, queried, visited, doneIds, last >>

\* SlurmExecutor.schedule, lines 111-123
SbatchFails ==
    /\ UNCHANGED call
    /\ pc = "run" /\ prompt = ""
    /\ ~usePyslurm /\ executor = "slurm"
    /\ \/ /\ Top.phase = "deps"
          /\ Top.dep > Len(JobDescs[Top.job].depends)
          /\ ~JobArray(Top.job)
       \/ /\ Top.phase = "loop" /\ Top.todo = {}
          /\ ArraySubmission(Top)
    /\ prompt' = "sbatch"
    /\ UNCHANGED << usePyslurm, runfile, disk, nextId, inv, pc, executor, former_runs,
                    scheduled_runs, stack, schedCalls, queried, visited, doneIds, last >>

\* the process ends: command_run has returned or an exception has left it,
\* and what it held in memory is gone
Exit ==
    /\ UNCHANGED call
    /\ pc \in {"done", "aborted"}
    /\ pc' = "idle"
    /\ executor' = "none"
    /\ former_runs' = EmptyLedger
    /\ scheduled_runs' = [p \in {} |-> 0]
    /\ stack' = <<>>
    /\ prompt' = ""
    /\ schedCalls' = [x \in {} |-> 0]
    /\ queried' = {}
    /\ visited' = {}
    /\ last' = NoStep
    /\ runfile' = [runfile EXCEPT !.mode = ""]
    /\ UNCHANGED << usePyslurm, disk, nextId, inv, doneIds >>

\* the decimal digits of n start with the digits of prefix: n is prefix, or
\* n without its last digit starts with them
RECURSIVE HasPrefix(_, _)
HasPrefix(n, prefix) == n = prefix \/ (n >= 10 /\ HasPrefix(n \div 10, prefix))

\* cli.command_runid, line 166: str(info["id"]).startswith(runid) for a run
\* identifier of the run file and an argument of digits without a leading
\* zero: the identifier is the number a cluster returned, of any number of
\* digits and with or without the index of an array, and its digits start
\* with those of the argument
StartsWith(run_id, digit) == IsNumber(run_id) /\ HasPrefix(run_id.num, digit)

\* lines 162-167: the runs `jobsched runid` prints
PrintedRuns(ledger, digit) == { id \in LedgerIds(ledger) : StartsWith(id, digit) }

\* cli.command_runid, lines 152-167: the command `jobsched runid`, from its
\* start to the end of its process.  It loads the run file, which creates a
\* missing file *.yml as an empty file, and prints the runs whose identifier
\* starts with its argument; for a file *.yml without document the ledger is
\* None and former_runs.items() raises.  A file *.yml that line 146 has
\* written is not followed, as in Start.
Runid(digit) ==
    /\ UNCHANGED call
    /\ pc = "idle"
    /\ runfile.holds # "dumped"
    /\ runfile' = [OpenRunfile(runfile) EXCEPT !.mode = ""]
    /\ last' = IF LoadsLedger(runfile)
               THEN [NoStep EXCEPT !.kind = "runid", !.ids = PrintedRuns(disk, digit)]
               ELSE [NoStep EXCEPT !.kind = "runid", !.at = "runfile"]
    /\ UNCHANGED << usePyslurm, disk, nextId, inv, pc, executor, former_runs,
                    scheduled_runs, stack, prompt, schedCalls, queried, visited,
                    doneIds >>

PressEnter ==
    /\ UNCHANGED call
    /\ prompt # ""
    /\ prompt' = ""
    /\ UNCHANGED << usePyslurm, runfile, disk, nextId, inv, pc, executor, former_runs,
                    scheduled_runs, stack, schedCalls, queried, visited, doneIds, last >>

\* the combinations the loop of the innermost call has still to visit
Todo == IF pc = "run" THEN Top.todo ELSE {}

Next ==
    \/ \E jobname \in JobNames \cup {NoJob}, force \in BOOLEAN, ex \in ExecutorKinds :
          Start(jobname, force, ex)
    \/ \E c \in Todo : Visit(c)
    \/ CallDependency
    \/ \E result \in ScheduleResults(executor, usePyslurm) : ScheduleRun(result)
    \/ \E result \in {"ok", "raise"} : Return(result)
    \/ \E result \in {"ok", "raise"} : Finish(result)
    \/ SacctFails
    \/ SbatchFails
    \/ PressEnter
    \/ Exit
    \/ \E digit \in 1..MaxRunidArgument : Runid(digit)

Spec == Init /\ [][Next]_vars

(***************************************************************************)
(* The properties.                                                         *)
(***************************************************************************)
\* the job the invocation was requested for, and its force flag
RootJob == stack[1].job
RootForce == stack[1].forcestart

\* an invocation is under way or has been aborted inside schedule_tree: the
\* run file still holds the ledger the invocation has started with
Underway == pc \in {"run", "aborted"} /\ stack # <<>>

\* the combinations of the dependency d that a call for combination c visits
Matching(c, d) == NewFrame(<<>>, d.job, Projection(c, d.foreach), FALSE).todo

\* the last step was a visit of a combination that did not raise
Visited == last.kind \in {"visit", "skip"}

\* C1, as stated: within one invocation Executor.schedule is called at most
\* once for every (job name, combination), whatever the shape of the
\* dependency graph and whatever the resolver reports.
C1_AtMostOneCall == \A x \in DOMAIN schedCalls : schedCalls[x] <= 1

\* C2: a combination whose ledger entry has success = true when an invocation
\* starts is never asked for at the resolver in that invocation, every visit
\* of it without force skips it, a schedule call for it is made only by the
\* forced call for the requested job, and unless forced its entry stays as
\* it is (so that the same holds in the invocations that follow).
C2_SuccessfulIsLeftAlone ==
    Underway =>
        \A j \in DOMAIN disk : \A c \in DOMAIN disk[j] :
            disk[j][c].success =>
                /\ <<j, c>> \notin queried
                /\ (Visited /\ last.job = j /\ last.c = c /\ ~last.forcestart)
                       => (last.kind = "skip" /\ ~last.asked)
                /\ (last.kind = "schedule" /\ last.job = j /\ last.c = c)
                       => last.forcestart
                /\ Calls(j, c) > 0 => (RootForce /\ RootJob = j)
                /\ ~(RootForce /\ RootJob = j) => former_runs[j][c] = disk[j][c]

C2_Witness ==
    /\ Underway /\ last.kind = "skip" /\ ~last.forcestart /\ ~last.asked
    /\ Entry(disk, last.job, last.c) # {}
    /\ \A x \in Entry(disk, last.job, last.c) : x.success

\* C3, as stated (for the identifiers that are not "local"): when the
\* schedule call of job J is made for combination c, every combination of
\* every dependency D of J that agrees with c on the shared keys has a ledger
\* run identifier and that identifier is part of the dependency constraint
\* passed with the call.
C3_ConstraintHoldsLedgerIds ==
    last.kind = "schedule" =>
        \A i \in 1..Len(JobDescs[last.job].depends) :
            LET d == JobDescs[last.job].depends[i]
            IN  \A dc \in Matching(last.c, d) :
                    /\ Entry(former_runs, d.job, dc) # {}
                    /\ \A x \in Entry(former_runs, d.job, dc) :
                           x.id # LocalId => CutSuffix(x.id) \in last.deps

\* C4: a visit without force of a combination whose entry has success = false
\* and whose stored run resolves to FAILED finds the combination eligible, and
\* the submission that follows is one schedule call after which the ledger
\* entry is the returned run identifier with success = false (a new number
\* on the cluster).
C4_FailedIsResubmitted ==
    /\ (Visited /\ ~last.forcestart /\ last.asked /\ last.state = FAILED)
           => (last.kind = "visit" /\ last.eligible /\ ~last.init
               /\ \A x \in last.before : ~x.success)
    /\ (last.kind = "schedule" /\ ~last.forcestart /\ last.state = FAILED)
           => /\ last.count = 1
              /\ Entry(former_runs, last.job, last.c)
                     = {[id |-> last.id, success |-> FALSE]}
              /\ last.before # {}
              /\ \A x \in last.before :
                     ~x.success /\ (executor = "slurm" => x.id # last.id)

C4_Witness ==
    /\ last.kind = "schedule" /\ ~last.forcestart /\ last.state = FAILED
    /\ executor = "slurm"
    /\ Calls(last.job, last.c) = 1

\* C5: a visit without force of a combination whose stored run resolves to
\* WAITING or RUNNING makes no schedule call for it (the combination is
\* skipped), leaves the ledger entry as it was and puts the stored run
\* identifier among the identifiers the call returns.
C5_WaitingOrRunningIsKept ==
    (Visited /\ ~last.forcestart /\ last.asked /\ last.state \in {WAITING, RUNNING})
        => /\ last.kind = "skip"
           /\ Entry(former_runs, last.job, last.c) = last.before
           /\ \A x \in last.before : x.id = last.id
           /\ last.id \in Top.run_ids

C5_Witness ==
    /\ last.kind = "skip" /\ ~last.forcestart /\ last.asked
    /\ last.state \in {WAITING, RUNNING}
    /\ Calls(last.job, last.c) = 0

\* C6, as stated: when an invocation started with force has ended, schedule
\* has been called exactly once for every combination the traversal has
\* reached.
C6_ForceReschedulesAllReached ==
    (pc = "done" /\ RootForce) => \A x \in visited : Calls(x[1], x[2]) = 1

\* C6, amended: when an invocation started with force has ended, schedule has
\* been called exactly once for every combination of the requested job,
\* whatever its ledger entry was; the calls for the dependencies are made
\* without force.
C6_ForceReschedulesRequestedJob ==
    /\ (pc = "done" /\ RootForce)
           => \A c \in recombine(Possible, EmptyCombination, JobVariables(RootJob)) :
                  /\ <<RootJob, c>> \in visited
                  /\ Calls(RootJob, c) = 1
    /\ \A i \in 2..Len(stack) : ~stack[i].forcestart
    /\ (last.kind = "visit" /\ last.forcestart) => last.eligible

C6_Witness ==
    /\ pc = "done" /\ RootForce /\ executor = "debug"
    /\ RootJob \in DOMAIN disk
    /\ \E c \in DOMAIN disk[RootJob] :
           /\ disk[RootJob][c].success
           /\ Calls(RootJob, c) = 1

\* C7, as stated: an invocation requested for a job whose description sets
\* the array flag and whose N >= 1 combinations are all eligible ends with
\* one schedule call of N runs for the job.
C7_ArrayIsSubmittedOnce ==
    (pc \in {"done", "aborted"} /\ last.kind \in {"config", "finish"}
        /\ "array" \in JobDescs[last.job].props)
        => /\ last.kind = "finish"
           /\ last.count = Cardinality(recombine(Possible, EmptyCombination,
                                                 JobVariables(last.job)))

\* C8: a ledger entry with success = true, in memory or in the run file,
\* holds a run identifier for which the resolver has returned DONE, and the
\* entry a submission has written has success = false.
C8_SuccessMeansDone ==
    /\ \A j \in DOMAIN former_runs : \A c \in DOMAIN former_runs[j] :
           former_runs[j][c].success => former_runs[j][c].id \in doneIds
    /\ \A j \in DOMAIN disk : \A c \in DOMAIN disk[j] :
           disk[j][c].success => disk[j][c].id \in doneIds
    /\ last.kind = "schedule"
           => Entry(former_runs, last.job, last.c)
                  = {[id |-> last.id, success |-> FALSE]}

C8_Witness ==
    \E j \in DOMAIN former_runs : \E c \in DOMAIN former_runs[j] :
        /\ former_runs[j][c].success
        /\ former_runs[j][c].id \in doneIds
        /\ <<j, c>> \in queried

\* C9: a visit without force of a combination whose entry has success = false
\* and whose stored run resolves to DONE sets the success flag, keeps the
\* run identifier and makes no schedule call (the combination is skipped and
\* its stored identifier returned).
C9_DoneIsMarked ==
    (Visited /\ ~last.forcestart /\ last.asked /\ last.state = DONE)
        => /\ last.kind = "skip"
           /\ last.before = {[id |-> last.id, success |-> FALSE]}
           /\ Entry(former_runs, last.job, last.c)
                  = {[id |-> last.id, success |-> TRUE]}
           /\ last.id \in Top.run_ids

C9_Witness ==
    /\ last.kind = "skip" /\ ~last.forcestart /\ last.asked /\ last.state = DONE
    /\ Entry(former_runs, last.job, last.c) = {[id |-> last.id, success |-> TRUE]}

\* the run identifier of the ledger entry of (jobname, c), as a set
IdOf(ledger, jobname, c) == { x.id : x \in Entry(ledger, jobname, c) }

\* the entry of the combination a frame is scheduling is what it was when the
\* combination was visited, but for the success flag of a run found DONE
LeftAsItWas(f) ==
    \/ Entry(former_runs, f.job, f.c) = f.before
    \/ /\ f.state = DONE
       /\ Entry(former_runs, f.job, f.c)
              = { [x EXCEPT !.success = TRUE] : x \in f.before }

\* within an invocation the run identifier of an entry changes, or the entry
\* appears, only in the step in which a schedule call for the combination
\* returns that identifier
WrittenBySchedule ==
    (pc = "run" /\ pc' # "idle") =>
        \A j \in DOMAIN former_runs' : \A c \in DOMAIN former_runs'[j] :
            IdOf(former_runs', j, c) # IdOf(former_runs, j, c)
                => \/ /\ last'.kind = "schedule"
                      /\ last'.job = j /\ last'.c = c
                      /\ former_runs'[j][c] = [id |-> last'.id, success |-> FALSE]
                   \/ /\ last'.kind \in {"return", "finish"}
                      /\ last'.job = j /\ last'.count > 0

\* C10: a ledger entry is created or given another run identifier only by
\* the step in which a schedule call for its combination returns, and when
\* the invocation is aborted by a raise of schedule, of an init script or
\* of a step of a dependency, the entry of every combination that was being
\* scheduled is as it was when the combination was visited.
C10_LedgerFollowsSchedule ==
    /\ [][WrittenBySchedule]_vars
    /\ [](pc = "aborted" =>
             \A i \in 1..Len(stack) :
                 stack[i].phase \in {"init", "deps"} => LeftAsItWas(stack[i]))

C10_Witness ==
    /\ pc = "aborted" /\ last.kind = "raise" /\ last.at = "schedule"
    /\ Len(stack) > 1
    /\ Entry(former_runs, last.job, last.c) = last.before

\* C11, as stated: when an invocation with the cluster executor is aborted,
\* every combination it holds in its ledger (the submitted ones among them)
\* is, with the same run identifier, in the run file the next invocation
\* loads.
C11_AbortKeepsSubmitted ==
    (pc = "aborted" /\ executor = "slurm") =>
        \A j \in DOMAIN former_runs : \A c \in DOMAIN former_runs[j] :
            IdOf(disk, j, c) = IdOf(former_runs, j, c)

\* C12, as stated, for the cluster executor without pyslurm: when the
\* submission through sbatch has failed, the failure is raised and the
\* invocation is aborted.
C12_SbatchFailureAborts == prompt = "sbatch" => pc = "aborted"

\* C12, amended: a failure that is raised (of Executor.init for the working
\* directory or an init script, of Executor.schedule) aborts the invocation
\* and no schedule call is made after it; Executor.init and
\* Executor.schedule can fail with the local and the cluster executor and
\* never with the stub executors; a failed sbatch is not raised by itself:
\* the program waits for the operator and, when the answer comes, goes on
\* with the pass and submits again.
C12_RaisedFailureAborts ==
    /\ [](last.kind = "raise" => pc = "aborted")
    /\ []((last.kind = "raise" /\ last.at \in {"mkdir", "init", "schedule"})
              => executor \in {"local", "slurm"})
    /\ [](prompt = "sbatch" => (pc = "run" /\ executor = "slurm" /\ ~usePyslurm))
    /\ [][prompt = "sbatch" => (prompt' = "" /\ pc' = "run" /\ stack' = stack)]_vars
    /\ [][pc = "aborted" => (schedCalls' = schedCalls \/ pc' = "idle")]_vars

C12_Witness ==
    /\ pc = "aborted" /\ last.kind = "raise" /\ last.at = "schedule"
    /\ executor = "slurm"
    /\ \E x \in DOMAIN schedCalls : x # <<last.job, last.c>> /\ schedCalls[x] = 1

\* the (job name, combination) keys of a ledger
KeysOf(ledger) ==
    UNION { { <<j, c>> : c \in DOMAIN ledger[j] } : j \in DOMAIN ledger }

\* C13: no step removes a key or a slice from the ledger in the run file;
\* within an invocation no step removes one from the ledger in memory; and
\* the ledger an invocation starts with is the one of the run file, with an
\* empty slice added for the job names of the tree that had none.
C13_LedgerOnlyGrows ==
    /\ [][KeysOf(disk) \subseteq KeysOf(disk')
          /\ (DOMAIN disk) \subseteq (DOMAIN disk')]_vars
    /\ [][pc' # "idle" =>
             /\ KeysOf(former_runs) \subseteq KeysOf(former_runs')
             /\ (DOMAIN former_runs) \subseteq (DOMAIN former_runs')]_vars
    /\ [][(pc = "idle" /\ pc' # "idle") =>
             /\ (DOMAIN disk) \subseteq (DOMAIN former_runs')
             /\ \A j \in DOMAIN former_runs' :
                    former_runs'[j] = IF j \in DOMAIN disk THEN disk[j] ELSE NoEntries]_vars

C13_Witness ==
    /\ last.kind = "schedule" /\ last.before # {}
    /\ inv = 2
    /\ Cardinality(KeysOf(former_runs)) >= 3
    /\ KeysOf(disk) = KeysOf(former_runs)

(***************************************************************************)
(* get_run_state applied on its own.                                       *)
(***************************************************************************)
\* largest job number of the run identifiers get_run_state is applied to
MaxRunId == 2

\* run identifiers of every form the ledger can hold: "local", the number of
\* a cluster job, the identifier of a run of an array job, the quoted name a
\* stub executor returns
RunIds ==
    {LocalId} \cup { ClusterId(n) : n \in 1..MaxRunId }
              \cup { ArrayRunId(ClusterId(n), 0) : n \in 1..MaxRunId }
              \cup { StubId("D", EmptyCombination) }

InitResolver ==
    /\ usePyslurm \in BOOLEAN
    /\ Fresh
    /\ \E run_id \in RunIds, raw \in RawStates(usePyslurm) :
           call = [fn |-> "get_run_state", run_id |-> run_id, raw |-> raw]

\* get_run_state(run_id) returns or raises
ApplyGetRunState ==
    /\ call.fn = "get_run_state"
    /\ "state" \notin DOMAIN call
    /\ call' = [fn |-> "get_run_state", run_id |-> call.run_id, raw |-> call.raw,
                state |-> get_run_state(call.run_id, usePyslurm, call.raw)]
    /\ UNCHANGED invocation

SpecResolver == InitResolver /\ [][ApplyGetRunState]_vars

\* the scheduler has answered with a status the program knows
Recognised(pyslurm, raw) ==
    IF pyslurm THEN raw \in {0, 1, 2, 3, 4, 5, 6, 7, 8, 10}
    ELSE raw \in {"PENDING", "RUNNING", "FAILED", "CANCELLED", "TIMEOUT",
                  "OUT_OF_MEMORY", "COMPLETED"}

\* C14, as stated: for a run identifier other than "local", get_run_state
\* raises whenever the scheduler's answer is not a status it recognises (an
\* unknown one or none at all); it returns no state by default.
C14_UnknownStatusIsFatal ==
    (call.fn = "get_run_state" /\ "state" \in DOMAIN call
        /\ call.run_id # LocalId /\ ~Recognised(usePyslurm, call.raw))
        => call.state = RAISED

\* the last step was a visit without force of a combination whose ledger
\* entry holds the run identifier "local"
VisitedLocal ==
    /\ Visited /\ ~last.forcestart
    /\ last.before # {}
    /\ \A x \in last.before : x.id = LocalId

\* C15, as stated: a combination whose ledger identifier is "local" has
\* success = true after a visit without force and is not submitted again.
C15_LocalIsMarkedWhenRevisited ==
    VisitedLocal =>
        /\ last.kind = "skip"
        /\ Entry(former_runs, last.job, last.c) = {[id |-> LocalId, success |-> TRUE]}

\* C15, amended: get_run_state returns DONE for "local" whatever the
\* scheduler would answer, and the scheduler is not asked; a combination
\* whose ledger identifier is "local" is skipped by every visit without force
\* and keeps its identifier; a visit by a Job object that has not submitted
\* it in this invocation sets success = true, a visit by the object that has
\* submitted it does not ask for its state and leaves the entry as it is.
C15_LocalIsDone ==
    /\ \A pyslurm \in BOOLEAN : \A raw \in RawStates(pyslurm) :
           get_run_state(LocalId, pyslurm, raw) = DONE
    /\ prompt = "sacct" =>
           \E c \in Top.todo :
               NeedsState(Top, c) /\ former_runs[Top.job][c].id # LocalId
    /\ VisitedLocal =>
           /\ last.kind = "skip"
           /\ last.state = DONE
           /\ last.id = LocalId /\ LocalId \in Top.run_ids
           /\ last.asked <=> (/\ last.c \notin DOMAIN scheduled_runs[last.inst]
                              /\ \A x \in last.before : ~x.success)
           /\ Entry(former_runs, last.job, last.c) =
                  IF last.asked THEN {[id |-> LocalId, success |-> TRUE]}
                  ELSE last.before

C15_Witness ==
    /\ VisitedLocal /\ last.asked
    /\ Entry(former_runs, last.job, last.c) = {[id |-> LocalId, success |-> TRUE]}
    /\ Calls(last.job, last.c) = 1

(***************************************************************************)
(* ParameterCombinations.recombine applied on its own.                     *)
(***************************************************************************)
\* longest combination list recombine is applied to
MaxCombinations == 3

\* the parameter names and the combinations that assign all of them
ParameterNames == {"a", "b"}
FullCombinations == [ParameterNames -> 1..MaxA]

\* the lists of at most n combinations
RECURSIVE CombinationLists(_)
CombinationLists(n) ==
    IF n = 0 THEN { <<>> }
    ELSE LET shorter == CombinationLists(n - 1)
         IN  shorter \cup { Append(l, v) : l \in { x \in shorter : Len(x) = n - 1 },
                                           v \in FullCombinations }

\* the assignments of some of the parameter names
PartialCombinations ==
    UNION { [keys -> 1..MaxA] : keys \in SUBSET ParameterNames }

InitRecombine ==
    /\ usePyslurm = FALSE
    /\ Fresh
    /\ \E combinations \in CombinationLists(MaxCombinations),
          values \in PartialCombinations, freekeys \in SUBSET ParameterNames :
           call = [fn |-> "recombine", combinations |-> combinations,
                   values |-> values, freekeys |-> freekeys]

\* ParameterCombinations(combinations).recombine(values, freekeys) returns
ApplyRecombine ==
    /\ call.fn = "recombine"
    /\ "result" \notin DOMAIN call
    /\ call' = [fn |-> "recombine", combinations |-> call.combinations,
                values |-> call.values, freekeys |-> call.freekeys,
                result |-> recombine(call.combinations, call.values, call.freekeys)]
    /\ UNCHANGED invocation

SpecRecombine == InitRecombine /\ [][ApplyRecombine]_vars

\* C16: recombine(values, freekeys) returns exactly the set of the
\* restrictions to keys(values) + freekeys of the combinations of the list
\* that agree with values on every key of values (a set: duplicates are
\* collapsed); it is empty when no combination agrees; and
\* recombine({a:1}, [b]) over {a:1,b:1}, {a:1,b:2}, {a:2,b:1} is
\* {{a:1,b:1}, {a:1,b:2}}.
C16_RecombineFiltersAndProjects ==
    (call.fn = "recombine" /\ "result" \in DOMAIN call) =>
        LET keys == (DOMAIN call.values) \cup call.freekeys
            list == { call.combinations[i] : i \in DOMAIN call.combinations }
            agrees(v) == \A k \in DOMAIN call.values : v[k] = call.values[k]
        IN  /\ \A r \in call.result :
                   /\ DOMAIN r = keys
                   /\ \E v \in list : agrees(v) /\ \A k \in keys : r[k] = v[k]
            /\ \A v \in list : agrees(v) => [k \in keys |-> v[k]] \in call.result
            /\ (\A v \in list : ~agrees(v)) => call.result = {}
            /\ (/\ call.combinations = << [a |-> 1, b |-> 1], [a |-> 1, b |-> 2],
                                          [a |-> 2, b |-> 1] >>
                /\ call.values = [a |-> 1]
                /\ call.freekeys = {"b"})
                   => call.result = { [a |-> 1, b |-> 1], [a |-> 1, b |-> 2] }

C16_Witness ==
    /\ call.fn = "recombine" /\ "result" \in DOMAIN call
    /\ call.combinations = << [a |-> 1, b |-> 1], [a |-> 1, b |-> 2],
                              [a |-> 2, b |-> 1] >>
    /\ call.values = [a |-> 1]
    /\ call.freekeys = {"b"}
    /\ Cardinality(call.result) = 2

(***************************************************************************)
(* ParameterCombinations.__init__ applied on its own.                      *)
(***************************************************************************)
\* most enumerations of a mapping, and most values of a scalar enumeration
MaxEnumerations == 2
MaxValues == 2

\* the value lists of at most n scalars
RECURSIVE ScalarLists(_)
ScalarLists(n) ==
    IF n = 0 THEN { <<>> }
    ELSE LET shorter == ScalarLists(n - 1)
         IN  shorter \cup { Append(l, x) : l \in { y \in shorter : Len(y) = n - 1 },
                                           x \in 1..MaxA }

\* the enumerations of a mapping: a parameter with a list of scalars, or a
\* key "g" with a list of one or two dicts
Enumerations ==
    { [key |-> k, grouped |-> FALSE, values |-> l] :
        k \in ParameterNames, l \in ScalarLists(MaxValues) }
    \cup { [key |-> "g", grouped |-> TRUE, values |-> l] :
        l \in { <<x>> : x \in PartialCombinations }
              \cup { <<x, y>> : x \in PartialCombinations, y \in PartialCombinations } }

\* the mappings of at most n enumerations, in document order; the keys of a
\* mapping are distinct
RECURSIVE Mappings(_)
Mappings(n) ==
    IF n = 0 THEN { <<>> }
    ELSE LET shorter == Mappings(n - 1)
         IN  shorter \cup
             { Append(m, e) : m \in { x \in shorter : Len(x) = n - 1 },
                              e \in Enumerations } 

DistinctKeys(m) == \A i, j \in 1..Len(m) : m[i].key = m[j].key => i = j

InitConstructor ==
    /\ usePyslurm = FALSE
    /\ Fresh
    /\ \E m \in Mappings(MaxEnumerations) :
           /\ DistinctKeys(m)
           /\ call = [fn |-> "ParameterCombinations", enums |-> m]

\* ParameterCombinations(enums) returns or raises
ApplyConstructor ==
    /\ call.fn = "ParameterCombinations"
    /\ "raised" \notin DOMAIN call
    /\ call' = [fn |-> "ParameterCombinations", enums |-> call.enums,
                raised |-> ConstructorRaises(call.enums),
                combinations |-> IF ConstructorRaises(call.enums) THEN <<>>
                                 ELSE ParameterCombinations(call.enums)]
    /\ UNCHANGED invocation

SpecConstructor == InitConstructor /\ [][ApplyConstructor]_vars

Constructed == call.fn = "ParameterCombinations" /\ "raised" \in DOMAIN call

\* the ways to pick one position of every value list of a mapping
Picks(m) ==
    { f \in [1..Len(m) -> 1..MaxValues] : \A i \in 1..Len(m) : f[i] <= Len(m[i].values) }

\* the combination that assigns every key of a scalar mapping the picked value
Picked(m, f) ==
    [k \in { m[i].key : i \in 1..Len(m) } |->
        LET i == CHOOSE x \in 1..Len(m) : m[x].key = k IN m[i].values[f[i]]]

\* the constructor returned one combination per element of L1 x ... x Ln
OnePerElement(m, combinations) ==
    /\ \A f \in Picks(m) :
           Cardinality({ p \in 1..Len(combinations) : combinations[p] = Picked(m, f) })
               = Cardinality({ g \in Picks(m) : Picked(m, g) = Picked(m, f) })
    /\ \A p \in 1..Len(combinations) : \E f \in Picks(m) : combinations[p] = Picked(m, f)

\* C17: the constructor yields the iterated cartesian product starting from
\* the single empty combination: for scalar enumerations with value lists
\* L1..Ln it returns one combination per element of L1 x ... x Ln, each
\* assigning ki an element of Li; an enumeration of dicts that comes last
\* merges each of its elements as a whole into every earlier combination.
C17_IteratedProduct ==
    Constructed =>
        LET m == call.enums
            n == Len(m)
        IN  /\ (\A i \in 1..n : ~m[i].grouped) =>
                   /\ ~call.raised
                   /\ OnePerElement(m, call.combinations)
            /\ (n > 0 /\ m[n].grouped /\ \A i \in 1..(n - 1) : m[i].values # <<>>) =>
                   LET prev == ParameterCombinations(SubSeq(m, 1, n - 1))
                       v == m[n].values
                   IN  /\ ~call.raised
                       /\ Len(call.combinations) = Len(prev) * Len(v)
                       /\ \A i \in 1..Len(prev) : \A j \in 1..Len(v) :
                              call.combinations[(i - 1) * Len(v) + j]
                                  = dictunion(prev[i], v[j])

\* the same for mappings without an empty enumeration
C17_ProductOfNonEmpty ==
    (Constructed /\ \A i \in 1..Len(call.enums) : call.enums[i].values # <<>>)
        => C17_IteratedProduct

C17_Witness ==
    /\ Constructed
    /\ Len(call.enums) = 2
    /\ \A i \in 1..2 : ~call.enums[i].grouped /\ Len(call.enums[i].values) = 2
    /\ Len(call.combinations) = 4

(***************************************************************************)
(* ParameterCombinations.add_filecombinations (parameters.py 55-95) applied *)
(* on its own.  A text is a sequence of characters; a template is a        *)
(* sequence of tokens, a character or a {{variable}}; the values of the    *)
(* combinations are texts.  Paths are relative to the working directory.   *)
(* The content of the working directory is a listing: the paths of its     *)
(* files and of their directories, those of one directory in the order in  *)
(* which os.scandir yields them.                                           *)
(***************************************************************************)
\* most files of the working directory
MaxFiles == 2

Data == << "d", "a", "t", "a", "/" >>
Csv == << ".", "c", "s", "v" >>

Text(s) == [i \in DOMAIN s |-> [kind |-> "lit", text |-> s[i]]]
Var(name) == << [kind |-> "var", text |-> name] >>

\* data/{{x}}.csv, data/{{a}}.csv, data/{{a}}{{x}}.csv, {{x}}/{{y}}.csv and
\* {{x}}/{{x}}.csv
Patterns ==
    { Text(Data) \o Var("x") \o Text(Csv),
      Text(Data) \o Var("a") \o Text(Csv),
      Text(Data) \o Var("a") \o Var("x") \o Text(Csv),
      Var("x") \o Text(<< "/" >>) \o Var("y") \o Text(Csv),
      Var("x") \o Text(<< "/" >>) \o Var("x") \o Text(Csv) }

\* data/1.csv, data/2.csv, data/12.csv, data/.csv, 1/1.csv and
\* data/2.csv/1.csv, a file of a directory with the name data/2.csv
FileNames ==
    { Data \o << "1" >> \o Csv, Data \o << "2" >> \o Csv,
      Data \o << "1", "2" >> \o Csv, Data \o Csv,
      << "1", "/", "1" >> \o Csv,
      Data \o << "2" >> \o Csv \o << "/", "1" >> \o Csv }

\* the directories above a path
Ancestors(path) ==
    { SubSeq(path, 1, i - 1) : i \in { j \in 1..Len(path) : path[j] = "/" } }

\* the directories of a set of files
Directories(files) == UNION { Ancestors(f) : f \in files }

\* the sequences that hold every element of a set once
Orders(set) ==
    { l \in [1..Cardinality(set) -> set] : \A i, j \in DOMAIN l : l[i] = l[j] => i = j }

\* the directory listings: at most n files and the directories they are
\* in, in any order, files and directories mixed; no path is a file and a
\* directory
Listings(n) ==
    UNION { Orders(files \cup Directories(files)) :
              files \in { F \in SUBSET FileNames :
                            Cardinality(F) <= n /\ F \cap Directories(F) = {} } }

\* the paths of a listing
Entries(listing) == { listing[i] : i \in DOMAIN listing }

Position(listing, path) == CHOOSE i \in DOMAIN listing : listing[i] = path

\* the directory above `path`, or `path`, that is in the directory where
\* the ways to `path` and to `other` part
Branch(path, other) ==
    LET apart == (Ancestors(path) \cup {path}) \ (Ancestors(other) \cup {other})
    IN  CHOOSE x \in apart : \A y \in apart : Len(x) <= Len(y)

\* glob yields `path` before `other`, two paths of the same depth: it goes
\* through the directories that match in the order os.scandir yields them
\* and through the entries of each in the order os.scandir yields them
YieldedBefore(listing, path, other) ==
    Position(listing, Branch(path, other)) < Position(listing, Branch(other, path))

\* the paths of a set in the order in which glob yields them
RECURSIVE ScandirOrder(_, _)
ScandirOrder(listing, paths) ==
    IF paths = {} THEN <<>>
    ELSE LET x == CHOOSE y \in paths :
                      \A z \in paths \ {y} : YieldedBefore(listing, y, z)
         IN  << x >> \o ScandirOrder(listing, paths \ {x})

\* the variables of a template
Variables(template) ==
    { template[i].text : i \in { j \in 1..Len(template) : template[j].kind = "var" } }

\* _RenderFilter(*dicts): each dict updates the ones before it
RenderFilter(v, dicts) == dictunion(v, dicts)

\* key[0] for the variable names of the templates: "_desc" is a name with
\* the prefix jobs.SPECIAL_PARAM_PREFIX, "+1" an expression that
\* _RenderFilter.__getitem__ evaluates, the other names are single letters
Initial(key) ==
    IF key = "_desc" THEN "_" ELSE IF key = "+1" THEN "+" ELSE key

\* eval(renderer.render(key[1:]...)) of the expression "+1", as text
Eval(key) == << "1" >>

\* a filter that does not record the names with the prefix "_"
Missing_SkippingReserved(template, known) ==
    { key \in Variables(template) \ DOMAIN known : Initial(key) \notin {"+", "_"} }

\* render(..., output_missing=True)[1]: the names _RenderFilter.__getitem__
\* has added to self.missing
Missing(template, known) ==
    { key \in Variables(template) \ DOMAIN known : Initial(key) # "+" }

\* _RenderFilter.__getitem__ of the i-th token, a variable: its value, the
\* value of an expression, the first_missing_value the first time it is
\* missing, the repeated_missing_value afterwards
RenderVariable(template, i, known, first, repeated) ==
    IF template[i].text \in DOMAIN known THEN Text(known[template[i].text])
    ELSE IF Initial(template[i].text) = "+" THEN Text(Eval(template[i].text))
    ELSE IF \E j \in 1..(i - 1) : template[j] = template[i]
         THEN << [kind |-> repeated, text |-> template[i].text] >>
         ELSE << [kind |-> first, text |-> template[i].text] >>

\* render(template, v, *dicts, first_missing_value, repeated_missing_value)
RECURSIVE RenderFrom(_, _, _, _, _)
RenderFrom(template, i, known, first, repeated) ==
    IF i > Len(template) THEN <<>>
    ELSE (IF template[i].kind = "lit" THEN << template[i] >>
          ELSE RenderVariable(template, i, known, first, repeated))
         \o RenderFrom(template, i + 1, known, first, repeated)

\* the glob pattern: "*" for a missing variable
RenderGlob(template, known) == RenderFrom(template, 1, known, "star", "star")

\* the regular expression: "(?P<name>[^/]*)" for a missing variable, which
\* .replace("*", r"[^\/]*") turns into "(?P<name>[^/][^\/]*)", and
\* "(?P=<name>[^/]*)" for a repeated one, which re.compile rejects; "." and
\* "+" are escaped, the other characters of the texts stand for themselves
RenderRegexp(template, known) == RenderFrom(template, 1, known, "group", "bad")

CompileRaises(regexp) == \E i \in 1..Len(regexp) : regexp[i].kind = "bad"

\* the length of the longest prefix of s without "/"
Run(s) ==
    IF \E i \in 1..Len(s) : s[i] = "/"
    THEN (CHOOSE i \in 1..Len(s) : s[i] = "/" /\ \A j \in 1..(i - 1) : s[j] # "/") - 1
    ELSE Len(s)

Drop(s, n) == SubSeq(s, n + 1, Len(s))

\* glob: the pattern matches the whole path, "*" matches any run without
\* "/", and not a leading "." of a path segment
RECURSIVE GlobMatch(_, _, _)
GlobMatch(pattern, s, atStart) ==
    IF pattern = <<>> THEN s = <<>>
    ELSE IF Head(pattern).kind = "lit"
         THEN /\ s # <<>>
              /\ Head(s) = Head(pattern).text
              /\ GlobMatch(Tail(pattern), Tail(s), Head(s) = "/")
         ELSE /\ ~(atStart /\ s # <<>> /\ Head(s) = ".")
              /\ \E n \in 0..Run(s) : GlobMatch(Tail(pattern), Drop(s, n), atStart /\ n = 0)

\* glob(files): the files and the directories that match, mixed, in the
\* order of os.scandir
Glob(pattern, listing) ==
    ScandirOrder(listing, { path \in Entries(listing) : GlobMatch(pattern, path, TRUE) })

NoMatch == [ok |-> FALSE, groups |-> EmptyCombination]

\* r.match(f): the expression matches a prefix of the path; a group takes the
\* longest run of at least one character without "/" that lets the rest match
RECURSIVE RegexpMatch(_, _)
RegexpMatch(regexp, s) ==
    IF regexp = <<>> THEN [ok |-> TRUE, groups |-> EmptyCombination]
    ELSE IF Head(regexp).kind = "lit"
         THEN IF s # <<>> /\ Head(s) = Head(regexp).text
              THEN RegexpMatch(Tail(regexp), Tail(s))
              ELSE NoMatch
         ELSE LET fits == { n \in 1..Run(s) : RegexpMatch(Tail(regexp), Drop(s, n)).ok }
              IN  IF fits = {} THEN NoMatch
                  ELSE LET n == CHOOSE x \in fits : \A y \in fits : y <= x
                           rest == RegexpMatch(Tail(regexp), Drop(s, n))
                       IN  [ok |-> TRUE,
                            groups |-> dictunion(rest.groups,
                                [k \in {Head(regexp).text} |-> SubSeq(s, 1, n)])]

\* the combinations the files found for one combination add (lines 82-90)
RECURSIVE Refined(_, _, _)
Refined(found, regexp, v) ==
    IF found = <<>> THEN <<>>
    ELSE << dictunion(RegexpMatch(regexp, Head(found)).groups, v) >>
         \o Refined(Tail(found), regexp, v)

\* one turn of the loop over self.combinations (lines 57-92)
FileCombinationsOf(v, filepattern, listing, dicts) ==
    LET known == RenderFilter(v, dicts)
        regexp == RenderRegexp(filepattern, known)
        found == Glob(RenderGlob(filepattern, known), listing)
    IN  IF Missing(filepattern, known) = {} THEN [raised |-> FALSE, new |-> << v >>]
        ELSE IF CompileRaises(regexp) THEN [raised |-> TRUE, new |-> <<>>]
        ELSE IF \E i \in 1..Len(found) : ~RegexpMatch(regexp, found[i]).ok
             THEN [raised |-> TRUE, new |-> <<>>]
             ELSE [raised |-> FALSE, new |-> Refined(found, regexp, v)]

\* an add_filecombinations that gives every combination back
add_filecombinations_Unchanged(combinations, filepattern, listing, dicts) ==
    [raised |-> FALSE, combinations |-> combinations]

\* ParameterCombinations.add_filecombinations
RECURSIVE add_filecombinations(_, _, _, _)
add_filecombinations(combinations, filepattern, listing, dicts) ==
    IF combinations = <<>> THEN [raised |-> FALSE, combinations |-> <<>>]
    ELSE LET first == FileCombinationsOf(Head(combinations), filepattern, listing, dicts)
             rest == add_filecombinations(Tail(combinations), filepattern, listing, dicts)
         IN  IF first.raised \/ rest.raised
             THEN [raised |-> TRUE, combinations |-> <<>>]
             ELSE [raised |-> FALSE, combinations |-> first.new \o rest.combinations]

\* the combination lists and the dicts (constants and job parameters) the
\* function is applied to
FileCombinationLists ==
    { <<>>, << EmptyCombination >>, << [a |-> << "1" >>] >>,
      << [a |-> << "1" >>], [a |-> << "2" >>] >>, << [x |-> << "2" >>] >> }

FileDicts == { EmptyCombination, [a |-> << "2" >>] }

InitFiles ==
    /\ usePyslurm = FALSE
    /\ Fresh
    /\ \E combinations \in FileCombinationLists, filepattern \in Patterns,
          listing \in Listings(MaxFiles), dicts \in FileDicts :
           /\ call = [fn |-> "add_filecombinations", combinations |-> combinations,
                      filepattern |-> filepattern, listing |-> listing,
                      dicts |-> dicts]

\* add_filecombinations(filepattern, workdir, *dicts) returns or raises
ApplyAddFilecombinations ==
    /\ call.fn = "add_filecombinations"
    /\ "result" \notin DOMAIN call
    /\ call' = [fn |-> "add_filecombinations", combinations |-> call.combinations,
                filepattern |-> call.filepattern, listing |-> call.listing,
                dicts |-> call.dicts,
                result |-> add_filecombinations(call.combinations, call.filepattern,
                                                call.listing, call.dicts)]
    /\ UNCHANGED invocation

SpecFiles == InitFiles /\ [][ApplyAddFilecombinations]_vars

FilesApplied == call.fn = "add_filecombinations" /\ "result" \in DOMAIN call

\* the pattern with every variable replaced by its value
Substitute(template, known) == RenderFrom(template, 1, known, "star", "star")

\* the files the glob of combination v matches
FoundFor(v) ==
    Glob(RenderGlob(call.filepattern, RenderFilter(v, call.dicts)), call.listing)

MissingFor(v) == Missing(call.filepattern, RenderFilter(v, call.dicts))

\* the number of combinations that replace the first i combinations: one for
\* a combination without an unresolved variable, one per matched file for
\* the others
RECURSIVE Replacing(_)
Replacing(i) ==
    IF i = 0 THEN 0
    ELSE Replacing(i - 1)
         + (IF MissingFor(call.combinations[i]) = {} THEN 1
            ELSE Len(FoundFor(call.combinations[i])))

\* the list new is the replacement the claim describes
OnePerMatchedFile(new) ==
    /\ Len(new) = Replacing(Len(call.combinations))
    /\ \A i \in 1..Len(call.combinations) :
           LET v == call.combinations[i]
               at == Replacing(i - 1)
           IN  IF MissingFor(v) = {} THEN new[at + 1] = v
               ELSE \A j \in 1..Len(FoundFor(v)) :
                        LET n == new[at + j]
                        IN  /\ DOMAIN n = (DOMAIN v) \cup MissingFor(v)
                            /\ \A k \in DOMAIN v : n[k] = v[k]
                            /\ Substitute(call.filepattern, RenderFilter(n, call.dicts))
                                   = Text(FoundFor(v)[j])

\* the example: data/{{x}}.csv, data/1.csv and data/2.csv, the single empty
\* combination
FilesExample ==
    /\ call.fn = "add_filecombinations"
    /\ call.filepattern = Text(Data) \o Var("x") \o Text(Csv)
    /\ call.combinations = << EmptyCombination >>
    /\ call.dicts = EmptyCombination
    /\ Entries(call.listing)
           = { << "d", "a", "t", "a" >>, Data \o << "1" >> \o Csv, Data \o << "2" >> \o Csv }

ExampleResult(new) ==
    /\ Len(new) = 2
    /\ { new[i] : i \in 1..2 } = { [x |-> << "1" >>], [x |-> << "2" >>] }

\* C18: add_filecombinations replaces the combination list by: a combination
\* whose rendered pattern has no unresolved variable, unchanged; for a
\* combination with unresolved variables, exactly one combination per file
\* the glob matches, the combination extended with the values captured for
\* the unresolved variables; data/{{x}}.csv with data/1.csv and data/2.csv and
\* the single empty combination gives {x:"1"} and {x:"2"}.
C18_OnePerMatchedFile ==
    FilesApplied =>
        /\ ~call.result.raised
        /\ OnePerMatchedFile(call.result.combinations)
        /\ FilesExample => ExampleResult(call.result.combinations)

\* the same for the calls that return
C18_OnePerMatchedFileWhenReturning ==
    (FilesApplied /\ ~call.result.raised) =>
        /\ OnePerMatchedFile(call.result.combinations)
        /\ FilesExample => ExampleResult(call.result.combinations)

\* the example never raises
C18_ExampleReturns == (FilesApplied /\ FilesExample) => ~call.result.raised

C18_Witness ==
    /\ FilesApplied
    /\ FilesExample
    /\ ExampleResult(call.result.combinations)

(***************************************************************************)
(* The construction of the job graph (cli.command_run, lines 136-141, and  *)
(* JobList) for small configurations.  A job definition is a record: keys  *)
(* is the set of its properties, inherits the parent ("" without the key   *)
(* "inherits"), depends the jobs of its "depends" entries (empty without   *)
(* the key "depends").                                                     *)
(***************************************************************************)
\* most "depends" entries of a job definition
MaxDepends == 1

\* jobs.VALID_SETTINGS
VALID_SETTINGS ==
    { "account", "const", "foreach", "jobs", "logdir", "provenance_variables",
      "scheduler", "skip_in_name", "workdir" }

\* the jobs of the configurations; "X" is a name without a definition
ConfigNames == << "A", "B", "C" >>
Undefined == "X"

\* the names a definition may refer to: the later jobs, so that no
\* configuration has a cycle, and the undefined one
Later(name) ==
    { ConfigNames[i] : i \in { j \in 1..Len(ConfigNames) :
          \E k \in 1..(j - 1) : ConfigNames[k] = name } } \cup { Undefined }

\* the lists of at most n of the names
RECURSIVE DependsLists(_, _)
DependsLists(names, n) ==
    IF n = 0 THEN { <<>> }
    ELSE LET shorter == DependsLists(names, n - 1)
         IN  shorter \cup { Append(l, x) : l \in { y \in shorter : Len(y) = n - 1 },
                                           x \in names }

\* a definition with the properties `others`, the parent and the dependencies
JobDesc(others, inherits, depends) ==
    [keys |-> others \cup (IF inherits = "" THEN {} ELSE {"inherits"})
                     \cup (IF depends = <<>> THEN {} ELSE {"depends"}),
     inherits |-> inherits, depends |-> depends]

\* the definitions of a job: with or without a parent, dependencies and the
\* property "walltime", which is not one of VALID_JOB_PROPERTIES
JobDescsOf(name) ==
    { JobDesc(others, inherits, depends) :
        others \in { {"code"}, {"code", "walltime"} },
        inherits \in Later(name) \cup {""},
        depends \in DependsLists(Later(name), MaxDepends) }

Configurations ==
    { [A |-> a, B |-> b, C |-> c] :
        a \in JobDescsOf("A"), b \in JobDescsOf("B"), c \in JobDescsOf("C") }

\* the keys of settings: those command_run sets or requires, with or
\* without one that is not of VALID_SETTINGS
SettingsKeys ==
    { {"account", "foreach", "jobs", "logdir", "workdir"},
      {"account", "foreach", "jobs", "logdir", "workdir", "verbose"} }

\* JobList.__init__, lines 162-164
UnknownSetting(settings) == ~(settings \subseteq VALID_SETTINGS)

\* JobList.get_jobdesc raises
UnknownJob(jobdescs, jobname) == jobname \notin DOMAIN jobdescs

\* helpers.deepupdate(parent's depends, the job's depends): the entries of
\* the job replace the first entries of the parent
DeepupdateDepends(base, new) ==
    new \o SubSeq(base, Len(new) + 1, Len(base))

\* _add_inheritance, lines 187-191: the properties of the parent the job
\* has not are copied, the others are updated with those of the job
Inherit(parent, jobdesc) ==
    [keys |-> parent.keys \cup jobdesc.keys,
     inherits |-> jobdesc.inherits,
     depends |-> DeepupdateDepends(parent.depends, jobdesc.depends)]

\* a deletion that leaves the reference where it is
DelInherits_Kept(jobdesc) == jobdesc

\* line 192: del jobdesc["inherits"]
DelInherits(jobdesc) ==
    [keys |-> jobdesc.keys \ {"inherits"}, inherits |-> "", depends |-> jobdesc.depends]

\* JobList._add_inheritance: the definitions afterwards, or raised
RECURSIVE add_inheritance(_, _), InheritDependencies(_, _, _)
add_inheritance(jobdescs, jobname) ==
    IF UnknownJob(jobdescs, jobname) THEN [raised |-> TRUE, jobdescs |-> jobdescs]
    ELSE IF "inherits" \in jobdescs[jobname].keys
    THEN LET parent == add_inheritance(jobdescs, jobdescs[jobname].inherits)
         IN  IF parent.raised THEN parent
             ELSE LET jobdesc == DelInherits(Inherit(
                                     parent.jobdescs[jobdescs[jobname].inherits],
                                     jobdescs[jobname]))
                  IN  InheritDependencies(
                          [parent.jobdescs EXCEPT ![jobname] = jobdesc],
                          jobdesc.depends, 1)
    ELSE InheritDependencies(jobdescs, jobdescs[jobname].depends, 1)

\* lines 193-194: for s in jobdesc.get("depends", [])
InheritDependencies(jobdescs, depends, i) ==
    IF i > Len(depends) THEN [raised |-> FALSE, jobdescs |-> jobdescs]
    ELSE LET r == add_inheritance(jobdescs, depends[i])
         IN  IF r.raised THEN r ELSE InheritDependencies(r.jobdescs, depends, i + 1)

\* JobList._add_filecombinations raises: a definition it asks for is missing
\* (no definition of the configurations has a "foreach")
RECURSIVE FilecombinationsRaises(_, _)
FilecombinationsRaises(jobdescs, jobname) ==
    \/ UnknownJob(jobdescs, jobname)
    \/ \E i \in 1..Len(jobdescs[jobname].depends) :
           FilecombinationsRaises(jobdescs, jobdescs[jobname].depends[i])

\* a Job.__init__ that takes every property
UnknownProperty_Never(jobdesc) == FALSE

\* Job.__init__, lines 241-243, raises
UnknownProperty(jobdesc) == ~(jobdesc.keys \subseteq VALID_JOB_PROPERTIES)

\* JobList._setup_job: the Job objects constructed, each with the definition
\* it was constructed from, the dependencies first; Job.__init__ raises for a
\* property that is not of VALID_JOB_PROPERTIES
RECURSIVE setup_job(_, _), SetupDependenciesOf(_, _, _, _)
setup_job(jobdescs, jobname) ==
    IF UnknownJob(jobdescs, jobname) THEN [raised |-> TRUE, built |-> {}]
    ELSE LET d == SetupDependenciesOf(jobdescs, jobdescs[jobname].depends, 1, {})
         IN  IF d.raised THEN d
             ELSE IF UnknownProperty(jobdescs[jobname])
             THEN [raised |-> TRUE, built |-> d.built]
             ELSE [raised |-> FALSE,
                   built |-> d.built \cup
                       { [name |-> jobname, jobdesc |-> jobdescs[jobname]] }]

SetupDependenciesOf(jobdescs, depends, i, built) ==
    IF i > Len(depends) THEN [raised |-> FALSE, built |-> built]
    ELSE LET r == setup_job(jobdescs, depends[i])
         IN  IF r.raised THEN [raised |-> TRUE, built |-> built \cup r.built]
             ELSE SetupDependenciesOf(jobdescs, depends, i + 1, built \cup r.built)

\* command_run is at line 136: the configuration is loaded, the job chosen
InitJobList ==
    /\ usePyslurm = FALSE
    /\ Fresh
    /\ \E settings \in SettingsKeys, given \in Configurations,
          job \in { ConfigNames[i] : i \in DOMAIN ConfigNames } \cup { Undefined } :
           call = [fn |-> "command_run", settings |-> settings, given |-> given,
                   job |-> job, stage |-> "start", jobdescs |-> given,
                   built |-> {}]

Stage(stage, jobdescs, built) ==
    [fn |-> "command_run", settings |-> call.settings, given |-> call.given,
     job |-> call.job, stage |-> stage, jobdescs |-> jobdescs, built |-> built]

\* joblist = JobList(settings, former_runs, executor)
NewJobList ==
    /\ call.fn = "command_run" /\ call.stage = "start"
    /\ call' = Stage(IF UnknownSetting(call.settings) THEN "raised" ELSE "joblist",
                     call.jobdescs, call.built)
    /\ UNCHANGED invocation

\* get_job: self._add_inheritance(jobname)
AddInheritance ==
    /\ call.fn = "command_run" /\ call.stage = "joblist"
    /\ LET r == add_inheritance(call.jobdescs, call.job)
       IN  call' = Stage(IF r.raised THEN "raised" ELSE "inherited",
                         r.jobdescs, call.built)
    /\ UNCHANGED invocation

\* get_job: self._add_filecombinations(jobname, combinations, set([]))
AddFilecombinations ==
    /\ call.fn = "command_run" /\ call.stage = "inherited"
    /\ call' = Stage(IF FilecombinationsRaises(call.jobdescs, call.job)
                     THEN "raised" ELSE "combined", call.jobdescs, call.built)
    /\ UNCHANGED invocation

\* get_job: return self._setup_job(jobname)
SetupJobs ==
    /\ call.fn = "command_run" /\ call.stage = "combined"
    /\ LET r == setup_job(call.jobdescs, call.job)
       IN  call' = Stage(IF r.raised THEN "raised" ELSE "built",
                         call.jobdescs, r.built)
    /\ UNCHANGED invocation

\* executor.open(); run_job.schedule_tree(possible, {}, args.force)
CallScheduleTree ==
    /\ call.fn = "command_run" /\ call.stage = "built"
    /\ call' = Stage("scheduled", call.jobdescs, call.built)
    /\ UNCHANGED invocation

NextJobList ==
    \/ NewJobList
    \/ AddInheritance
    \/ AddFilecombinations
    \/ SetupJobs
    \/ CallScheduleTree

SpecJobList == InitJobList /\ [][NextJobList]_vars

\* the jobs reached from `names` through the "depends" entries
RECURSIVE DependencyClosure(_, _)
DependencyClosure(jobdescs, names) ==
    LET more == names \cup
            UNION { { jobdescs[n].depends[i] : i \in 1..Len(jobdescs[n].depends) } :
                    n \in names \cap DOMAIN jobdescs }
    IN  IF more = names THEN names ELSE DependencyClosure(jobdescs, more)

\* _add_inheritance(call.job) has returned
Inherited ==
    /\ call.fn = "command_run"
    /\ call.stage \in {"inherited", "combined", "built", "scheduled"}

\* C19: after _add_inheritance(jobName) has returned, neither the definition
\* of jobName nor that of a job of its transitive dependency closure has an
\* "inherits", for every acyclic configuration; and no Job is constructed
\* from a definition that has one.
C19_NoInheritsIsLeft ==
    /\ Inherited =>
           \A n \in DependencyClosure(call.jobdescs, {call.job}) :
               /\ n \in DOMAIN call.jobdescs
               /\ "inherits" \notin call.jobdescs[n].keys
               /\ call.jobdescs[n].inherits = ""
    /\ call.fn = "command_run" =>
           \A b \in call.built : "inherits" \notin b.jobdesc.keys

C19_Witness ==
    /\ Inherited
    /\ call.stage = "built"
    /\ call.job = "A"
    /\ call.given["A"].inherits = "B"
    /\ call.given["B"].inherits = "C"
    /\ call.given["A"].depends = << "B" >>
    /\ call.given["C"].depends = <<>>
    /\ { b.name : b \in call.built } = {"A", "B"}

\* the jobs of the dependency closure of the requested job, as configured
GivenClosure == DependencyClosure(call.given, {call.job})

\* the requested job, a "depends" entry or an "inherits" of the closure
\* names a job without a definition
UnknownName ==
    \E n \in GivenClosure :
        \/ n \notin DOMAIN call.given
        \/ /\ "inherits" \in call.given[n].keys
           /\ call.given[n].inherits \notin DOMAIN call.given

\* a definition of the closure has a field that is no job property
UnknownField ==
    \E n \in GivenClosure \cap DOMAIN call.given :
        (call.given[n].keys \ {"inherits"}) \ VALID_JOB_PROPERTIES # {}

\* C20: the construction of the job graph ends in a fatal error, before
\* schedule_tree is called, for every reference to a job name without a
\* definition, every unknown key of settings and every unknown field of a
\* definition of the dependency closure of the requested job: JobList()
\* raises for the key, _add_inheritance for the name, and _setup_job at the
\* latest for the field.
C20_UnknownIsRejected ==
    call.fn = "command_run" =>
        /\ call.settings \ VALID_SETTINGS # {} => call.stage \in {"start", "raised"}
        /\ UnknownName => call.stage \in {"start", "joblist", "raised"}
        /\ UnknownField =>
               call.stage \in {"start", "joblist", "inherited", "combined", "raised"}
        /\ call.stage = "scheduled" =>
               \A n \in GivenClosure :
                   /\ n \in DOMAIN call.given
                   /\ \E b \in call.built : b.name = n

C20_Witness ==
    /\ call.fn = "command_run"
    /\ call.stage = "raised"
    /\ UnknownField
    /\ ~UnknownName
    /\ call.settings \subseteq VALID_SETTINGS
    /\ call.job = "A"
    /\ call.given["A"].keys = {"code", "walltime", "depends"}
    /\ { b.name : b \in call.built } = {"B"}

(***************************************************************************)
(* templates.render applied on its own.                                    *)
(***************************************************************************)
\* longest template render is applied to
MaxTokens == 3

\* the tokens of the templates: a character, a variable, a variable with the
\* reserved prefix and an expression
RenderTokens ==
    { [kind |-> "lit", text |-> "a"], [kind |-> "var", text |-> "x"],
      [kind |-> "var", text |-> "_desc"], [kind |-> "var", text |-> "+1"] }

RECURSIVE Templates(_)
Templates(n) ==
    IF n = 0 THEN { <<>> }
    ELSE LET shorter == Templates(n - 1)
         IN  shorter \cup { Append(t, x) : t \in { y \in shorter : Len(y) = n - 1 },
                                           x \in RenderTokens }

\* the dicts render is given: values for some of the names
RenderDicts ==
    UNION { [keys -> { << "1" >> }] : keys \in SUBSET {"x", "_desc"} }

IsText(token) == token.kind = "lit"

\* templates.render: the text (first_missing_value and
\* repeated_missing_value are ""), the missing names with output_missing,
\* RenderError without it when a name is missing
render(template, known, output_missing) ==
    [raised |-> ~output_missing /\ Missing(template, known) # {},
     text |-> SelectSeq(RenderFrom(template, 1, known, "first", "repeated"), IsText),
     missing |-> Missing(template, known)]

\* Job.__init__, lines 277-285: the names added to self.variables
TrackedVariables(missing) == { key \in missing : Initial(key) # "_" }

InitRender ==
    /\ usePyslurm = FALSE
    /\ Fresh
    /\ \E template \in Templates(MaxTokens), known \in RenderDicts,
          output_missing \in BOOLEAN :
           call = [fn |-> "render", template |-> template, known |-> known,
                   output_missing |-> output_missing]

\* render(template, known, output_missing=...) returns or raises
ApplyRender ==
    /\ call.fn = "render"
    /\ "result" \notin DOMAIN call
    /\ call' = [fn |-> "render", template |-> call.template, known |-> call.known,
                output_missing |-> call.output_missing,
                result |-> render(call.template, call.known, call.output_missing)]
    /\ UNCHANGED invocation

SpecRender == InitRender /\ [][ApplyRender]_vars

Rendered == call.fn = "render" /\ "result" \in DOMAIN call

\* the names the template references that the dicts do not resolve;
\* expressions are evaluated, not looked up
Unresolved ==
    { call.template[i].text :
        i \in { j \in 1..Len(call.template) :
                  /\ call.template[j].kind = "var"
                  /\ call.template[j].text \notin DOMAIN call.known
                  /\ call.template[j].text # "+1" } }

\* C21, as stated: without output_missing render raises exactly when the
\* template references an unresolved variable whose name does not begin with
\* "_"; an unresolved variable with the reserved prefix does not make it fail.
C21_ReservedDoesNotFail ==
    (Rendered /\ ~call.output_missing) =>
        (call.result.raised <=> \E key \in Unresolved : key # "_desc")

\* C21, amended: without output_missing render raises exactly when the
\* template references an unresolved variable, with or without the reserved
\* prefix; with output_missing it never raises and returns the names of the
\* unresolved variables; the reserved prefix only keeps a name out of
\* Job.variables.
C21_StrictFailsOnEveryUnresolved ==
    Rendered =>
        /\ ~call.output_missing => (call.result.raised <=> Unresolved # {})
        /\ call.output_missing =>
               /\ ~call.result.raised
               /\ call.result.missing = Unresolved
               /\ TrackedVariables(call.result.missing) = Unresolved \ {"_desc"}

C21_Witness ==
    /\ Rendered
    /\ ~call.output_missing
    /\ Unresolved = {"_desc"}
    /\ call.result.raised

(***************************************************************************)
(* Claims C22 to C30.                                                      *)
(***************************************************************************)
\* C22: a job definition that sets the array flag is accepted by job
\* construction (JobList.get_job, Job.__init__), and the Job runs in array
\* mode: the construction of the job graph does not fail for a requested job
\* whose definition has the flag.
C22_ArrayFlagIsAccepted ==
    (pc = "aborted" /\ last.kind = "config") => ~JobArray(last.job)

\* no schedule_tree call is ever made on a Job that has array set
C22_NoJobIsAnArray ==
    \A i \in 1..Len(stack) : ~JobArray(stack[i].job)

\* the last step was the visit of a combination, however it ended
VisitStep ==
    \/ last.kind \in {"visit", "skip"}
    \/ last.kind = "raise" /\ last.at \in {"resolver", "mkdir", "init"}

\* C23: once a (job, combination) has been submitted in the invocation, every
\* later visit of it in the same invocation, through any dependency path,
\* does not ask the resolver and does not decide eligibility again: it
\* returns the run identifier recorded at the submission.
C23_SubmittedIsNotDecidedAgain ==
    (VisitStep /\ Calls(last.job, last.c) > 0) =>
        /\ ~last.asked
        /\ last.kind = "skip"
        /\ last.before = {SubmittedEntry(last.id)}
        /\ last.id \in Top.run_ids

\* a visit by the Job object that has made the submission asks nothing,
\* does not find the combination eligible and returns the run identifier
\* the ledger holds, which is the one of the latest submission by any Job
\* object of that name
C23_SubmitterDoesNotDecideAgain ==
    (VisitStep /\ last.c \in DOMAIN scheduled_runs[last.inst]) =>
        /\ ~last.asked
        /\ last.forcestart \/ last.kind \in {"skip", "raise"}
        /\ last.kind = "skip" =>
               /\ last.before # {}
               /\ \A x \in last.before : x.id = last.id
               /\ last.id \in Top.run_ids

C23_Witness ==
    /\ last.kind = "skip"
    /\ last.c \in DOMAIN scheduled_runs[last.inst]
    /\ Calls(last.job, last.c) = 1
    /\ executor = "slurm"

\* C24: the force flag applies to the requested job only: schedule_tree calls
\* the dependencies without force, so under force a combination of a
\* dependency that has a ledger entry and does not resolve to FAILED is not
\* submitted again.
C24_ForceStopsAtRequestedJob ==
    /\ \A i \in 2..Len(stack) : ~stack[i].forcestart
    /\ (VisitStep /\ last.inst # <<>>) => ~last.forcestart
    /\ (last.kind \in {"visit", "skip"} /\ last.inst # <<>> /\ RootForce
            /\ last.before # {} /\ last.state # FAILED)
           => /\ last.kind = "skip"
              /\ ~last.eligible
              /\ Entry(former_runs, last.job, last.c)
                     \subseteq { x \in last.before : TRUE }
                         \cup { [x EXCEPT !.success = TRUE] : x \in last.before }
    /\ (last.kind = "schedule" /\ last.inst # <<>>)
           => (last.before = {} \/ last.state = FAILED)

C24_Witness ==
    /\ pc = "run"
    /\ RootForce
    /\ last.kind = "skip" /\ last.inst # <<>>
    /\ last.asked /\ last.state = WAITING
    /\ Calls(RootJob, stack[1].c) = 0
    /\ Entry(disk, RootJob, stack[1].c) # {}

\* the steps the loop body has to take for a combination it decides to
\* submit, in their order: the init scripts unless the run has failed, then
\* schedule_tree of every dependency in the order of "depends"
StepsBeforeSubmission(job, state, n) ==
    (IF state # FAILED /\ JobDescs[job].init THEN << "init" >> ELSE <<>>)
        \o [i \in 1..n |-> JobDescs[job].depends[i].job]

\* C25: for an eligible combination the init scripts come first, then the
\* schedule_tree of every dependency, then the submission; the init scripts
\* are run exactly when the resolved state is not FAILED, and never for a
\* combination that is not eligible
C25_InitThenDependenciesThenSubmission ==
    /\ \A i \in 1..Len(stack) :
          stack[i].phase = "deps" =>
             stack[i].events = StepsBeforeSubmission(stack[i].job, stack[i].state,
                                                     stack[i].dep - 1)
    /\ last.kind \in {"schedule", "batch"} =>
          /\ last.events = StepsBeforeSubmission(last.job, last.state,
                                                 Len(JobDescs[last.job].depends))
          /\ last.init <=> (last.state # FAILED /\ JobDescs[last.job].init)
    /\ (last.kind = "visit" /\ JobDescs[last.job].init) =>
          (last.init <=> last.state # FAILED)
    /\ (last.kind \in {"visit", "skip"} /\ ~last.eligible) =>
          (last.kind = "skip" /\ ~last.init /\ last.events = <<>>)
    /\ last.kind = "skip" => ~last.eligible
    /\ (last.kind = "raise" /\ last.at = "init") =>
          (last.eligible /\ last.state # FAILED)

C25_Witness ==
    /\ last.kind = "schedule" /\ last.job = "A"
    /\ last.events = << "init", "D", "B" >>
    /\ last.state # FAILED /\ last.before # {}

\* a failed run that is retried under --force, without its init scripts
C25_FailedRetried ==
    /\ last.kind = "schedule" /\ last.job = "A" /\ last.forcestart
    /\ last.events = << "D", "B" >>
    /\ last.state = FAILED

(***************************************************************************)
(* The dependency constraint of Job.schedule_run, on run identifiers as    *)
(* the strings they are.  A string is the sequence of its characters;      *)
(* "local" is written as one item.                                         *)
(***************************************************************************)
\* most run identifiers handed to schedule_run
MaxDependencies == 3

\* the run identifiers of the dependencies: "local", "1", "2", "10", the
\* runs "1_0", "1_1", "2_0" of array jobs and "local_0"
IdStrings ==
    { << "local" >>, << "1" >>, << "2" >>, << "1", "0" >>,
      << "1", "_", "0" >>, << "1", "_", "1" >>, << "2", "_", "0" >>,
      << "local", "_", "0" >> }

\* the lists of at most n run identifiers
RECURSIVE IdLists(_)
IdLists(n) ==
    IF n = 0 THEN { <<>> }
    ELSE LET shorter == IdLists(n - 1)
         IN  shorter \cup { Append(l, v) : l \in { x \in shorter : Len(x) = n - 1 },
                                           v \in IdStrings }

\* the code point of the first character of an item
Ord(ch) ==
    CASE ch = "0" -> 48 [] ch = "1" -> 49 [] ch = "2" -> 50
      [] ch = ":" -> 58 [] ch = "_" -> 95 [] ch = "local" -> 108

\* s < t for str
StrLess(s, t) ==
    \E i \in 1..(Len(s) + 1) :
        /\ i <= Len(t)
        /\ \A j \in 1..(i - 1) : s[j] = t[j]
        /\ i <= Len(s) => Ord(s[i]) < Ord(t[i])

\* run_id.split("_")[0]
RECURSIVE SplitFirst(_)
SplitFirst(run_id) ==
    IF run_id = <<>> \/ Head(run_id) = "_" THEN <<>>
    ELSE << Head(run_id) >> \o SplitFirst(Tail(run_id))

\* sorted(set)
RECURSIVE SortedList(_)
SortedList(S) ==
    IF S = {} THEN <<>>
    ELSE LET least == CHOOSE x \in S : \A y \in S : ~StrLess(y, x)
         IN  << least >> \o SortedList(S \ {least})

\* ":".join(list)
RECURSIVE JoinColon(_)
JoinColon(list) ==
    IF list = <<>> THEN <<>>
    ELSE IF Len(list) = 1 THEN list[1]
    ELSE list[1] \o << ":" >> \o JoinColon(Tail(list))

\* a constraint that keeps the identifier "local"
JoinedRunIds_KeepingLocal(dep_run_ids) ==
    JoinColon(SortedList({ SplitFirst(dep_run_ids[i]) : i \in DOMAIN dep_run_ids }))

\* lines 331-339: the string dep_run_ids becomes
JoinedRunIds(dep_run_ids) ==
    JoinColon(SortedList({ SplitFirst(dep_run_ids[i]) :
                             i \in { j \in DOMAIN dep_run_ids :
                                       dep_run_ids[j] # << "local" >> } }))

\* lines 474-476: the line of the batch script
DependenciesLine(joined) ==
    IF joined # <<>> THEN << "#SBATCH --depend='afterok:" >> \o joined \o << "'\n" >>
    ELSE <<>>

\* line 402: the option given to pyslurm
PyslurmDependency(joined) ==
    IF joined # <<>> THEN << "afterok:" >> \o joined ELSE <<>>

InitConstraint ==
    /\ usePyslurm \in BOOLEAN
    /\ Fresh
    /\ \E dep_run_ids \in IdLists(MaxDependencies) :
           call = [fn |-> "schedule_run", dep_run_ids |-> dep_run_ids]

\* Job.schedule_run(current, parameters, dep_run_ids, workdir) hands the
\* submission to the executor
ApplyScheduleRun ==
    /\ call.fn = "schedule_run"
    /\ "directive" \notin DOMAIN call
    /\ LET joined == JoinedRunIds(call.dep_run_ids)
       IN  call' = [fn |-> "schedule_run", dep_run_ids |-> call.dep_run_ids,
                    directive |-> IF usePyslurm THEN PyslurmDependency(joined)
                                  ELSE DependenciesLine(joined)]
    /\ UNCHANGED invocation

SpecConstraint == InitConstraint /\ [][ApplyScheduleRun]_vars

\* the part of a run identifier before its first "_"
IsCut(p, run_id) ==
    /\ Len(p) <= Len(run_id)
    /\ \A i \in 1..Len(p) : p[i] = run_id[i] /\ p[i] # "_"
    /\ Len(p) < Len(run_id) => run_id[Len(p) + 1] = "_"

\* the lists of at most MaxDependencies cut identifiers
CutLists ==
    { l \in IdLists(MaxDependencies) : \A i \in DOMAIN l : "_" \notin
                                          { l[i][j] : j \in DOMAIN l[i] } }

\* list holds, in ascending order and once each, the cut identifiers of the
\* identifiers other than "local"
IsConstraintOf(list, dep_run_ids) ==
    /\ \A i \in 1..(Len(list) - 1) : StrLess(list[i], list[i + 1])
    /\ \A i \in DOMAIN list :
           \E j \in DOMAIN dep_run_ids :
               dep_run_ids[j] # << "local" >> /\ IsCut(list[i], dep_run_ids[j])
    /\ \A j \in DOMAIN dep_run_ids :
           dep_run_ids[j] # << "local" >> =>
               \E i \in DOMAIN list : IsCut(list[i], dep_run_ids[j])

\* the items of list with ":" between them
RECURSIVE Separated(_)
Separated(list) ==
    IF list = <<>> THEN <<>>
    ELSE list[1] \o (IF Len(list) > 1 THEN << ":" >> ELSE <<>>)
                 \o Separated(Tail(list))

\* C26: the dependency constraint of a submission is the sorted,
\* duplicate-free list of the run identifiers of the dependencies, without
\* those equal to "local" and each cut at its first "_"; when the list is
\* empty the submission has no dependency directive
C26_ConstraintIsSortedCutAndWithoutLocal ==
    (call.fn = "schedule_run" /\ "directive" \in DOMAIN call) =>
        \E list \in CutLists :
            /\ IsConstraintOf(list, call.dep_run_ids)
            /\ call.directive =
                 IF list = <<>> THEN <<>>
                 ELSE IF usePyslurm
                      THEN << "afterok:" >> \o Separated(list)
                      ELSE << "#SBATCH --depend='afterok:" >>
                               \o Separated(list) \o << "'\n" >>

C26_Witness ==
    /\ call.fn = "schedule_run" /\ "directive" \in DOMAIN call
    /\ call.dep_run_ids = << << "2", "_", "0" >>, << "local" >>, << "1", "0" >> >>
    /\ call.directive = << "#SBATCH --depend='afterok:", "1", "0", ":", "2", "'\n" >>

\* no directive for dependencies that all ran locally
C26_NoDirective ==
    /\ call.fn = "schedule_run" /\ "directive" \in DOMAIN call
    /\ call.dep_run_ids = << << "local" >>, << "local" >> >>
    /\ call.directive = <<>>

\* C27: every submission is made with the working directory rendered for
\* a combination that is part of it: the submitted combination of a job
\* that is no array, one of the batched combinations of an array job
C27_SubmittedInOwnDirectory ==
    /\ last.kind = "schedule" => last.workdir = last.c
    /\ (last.kind \in {"return", "finish"} /\ last.count > 0) =>
           \E c \in DOMAIN scheduled_runs[last.inst] :
               /\ last.workdir = c
               /\ CutSuffix(scheduled_runs[last.inst][c]) \in last.ids

\* every submission is of one combination and is made with the working
\* directory rendered for it in the same pass of the loop (lines 541-544
\* and 590); no call submits a batch after its loop (lines 597-603), since
\* no Job is built of a definition with "array" (lines 241-243)
C27_SingleSubmittedInOwnDirectory ==
    /\ last.kind = "schedule" => (last.workdir = last.c /\ last.count = 1)
    /\ last.kind = "batch" => last.workdir = last.c
    /\ last.kind \in {"return", "finish"} => last.count = 0
    /\ \A i \in 1..Len(stack) :
           stack[i].phase \in {"init", "deps"} => stack[i].workdir = stack[i].c

\* B is submitted for a = 2 in the directory of a = 2, after its submission
\* for a = 1, in a call made for the requested job A
C27_Witness ==
    /\ last.kind = "schedule" /\ last.job = "B"
    /\ last.c = [a |-> 2] /\ last.workdir = [a |-> 2]
    /\ stack[1].job = "A" /\ Calls("B", [a |-> 1]) > 0

(***************************************************************************)
(* JobList._add_filecombinations: the walk through the dependencies that   *)
(* applies the foreach patterns of the jobs to the shared                  *)
(* ParameterCombinations.                                                  *)
(***************************************************************************)
\* longest list of dependencies and of foreach patterns of a definition
MaxDiscoveryDepends == 2
MaxForeach == 2

\* the definitions of a job: its dependencies, among the later jobs and the
\* name without definition, and the number of its foreach patterns
DiscoveryDescsOf(name) ==
    { [depends |-> depends, foreach |-> n] :
        depends \in DependsLists(Later(name), MaxDiscoveryDepends),
        n \in 0..MaxForeach }

DiscoveryConfigurations ==
    { [A |-> a, B |-> b, C |-> c] :
        a \in DiscoveryDescsOf("A"), b \in DiscoveryDescsOf("B"),
        c \in DiscoveryDescsOf("C") }

\* a walk that applies the patterns of a job every time it comes to it
AppliesPatterns_EveryTime(jobname, seen) == TRUE

\* line 204
AppliesPatterns(jobname, seen) == jobname \notin seen

\* JobList._add_filecombinations(jobname, combinations, seen), lines 197-212,
\* from the state st of the walk: `seen`, the calls of
\* combinations.add_filecombinations made so far, each the job and the
\* position of the pattern in its "foreach", and whether get_jobdesc has
\* raised
RECURSIVE WalkFilecombinations(_, _, _)
RECURSIVE WalkDepends(_, _, _)
WalkFilecombinations(jobdescs, jobname, st) ==
    IF st.raised THEN st
    ELSE IF UnknownJob(jobdescs, jobname) THEN [st EXCEPT !.raised = TRUE]
    ELSE LET after == WalkDepends(jobdescs, jobdescs[jobname].depends, st)
         IN  IF after.raised THEN after
             ELSE [seen |-> after.seen \cup {jobname},
                   applied |-> IF AppliesPatterns(jobname, after.seen)
                               THEN after.applied \o
                                        [i \in 1..jobdescs[jobname].foreach |->
                                            << jobname, i >>]
                               ELSE after.applied,
                   raised |-> FALSE]

\* lines 201-202
WalkDepends(jobdescs, depends, st) ==
    IF depends = <<>> THEN st
    ELSE WalkDepends(jobdescs, Tail(depends),
                     WalkFilecombinations(jobdescs, Head(depends), st))

InitDiscovery ==
    /\ usePyslurm = FALSE
    /\ Fresh
    /\ \E jobdescs \in DiscoveryConfigurations,
          job \in { ConfigNames[i] : i \in DOMAIN ConfigNames } \cup { Undefined } :
           call = [fn |-> "_add_filecombinations", jobdescs |-> jobdescs,
                   job |-> job]

\* self._add_filecombinations(jobname, combinations, set([])) of
\* JobList.get_job returns or raises
ApplyWalkFilecombinations ==
    /\ call.fn = "_add_filecombinations"
    /\ "result" \notin DOMAIN call
    /\ call' = [fn |-> "_add_filecombinations", jobdescs |-> call.jobdescs,
                job |-> call.job,
                result |-> WalkFilecombinations(call.jobdescs, call.job,
                               [seen |-> {}, applied |-> <<>>, raised |-> FALSE])]
    /\ UNCHANGED invocation

SpecDiscovery == InitDiscovery /\ [][ApplyWalkFilecombinations]_vars

\* the jobs a job depends on, directly
DependsOn(jobdescs, jobname) ==
    IF jobname \in DOMAIN jobdescs
    THEN { jobdescs[jobname].depends[i] : i \in DOMAIN jobdescs[jobname].depends }
    ELSE {}

\* the jobs reached from the jobs of S through at most n dependencies
RECURSIVE Reached(_, _, _)
Reached(jobdescs, S, n) ==
    IF n = 0 THEN S
    ELSE Reached(jobdescs, S \cup UNION { DependsOn(jobdescs, j) : j \in S }, n - 1)

\* the transitive dependencies of a job
TransitiveDependencies(jobdescs, jobname) ==
    Reached(jobdescs, DependsOn(jobdescs, jobname), Len(ConfigNames))

\* C28: the foreach patterns of each job in the dependency closure of the
\* requested job are applied to the shared ParameterCombinations at most
\* once, and the patterns of a job only after the patterns of all of its
\* transitive dependencies, also when a job is reached through several
\* dependency paths; when the walk returns, every pattern of the closure has
\* been applied
C28_PatternsOnceAndAfterDependencies ==
    (call.fn = "_add_filecombinations" /\ "result" \in DOMAIN call) =>
        LET applied == call.result.applied
            jobdescs == call.jobdescs
            closure == {call.job} \cup TransitiveDependencies(jobdescs, call.job)
        IN  /\ \A p, q \in DOMAIN applied : applied[p] = applied[q] => p = q
            /\ \A p \in DOMAIN applied :
                   /\ applied[p][1] \in closure \cap DOMAIN jobdescs
                   /\ applied[p][2] \in 1..jobdescs[applied[p][1]].foreach
                   /\ \A q \in DOMAIN applied :
                          (applied[q][1] = applied[p][1] /\ applied[q][2] < applied[p][2])
                              => q < p
                   /\ \A d \in TransitiveDependencies(jobdescs, applied[p][1]) :
                          /\ d \in DOMAIN jobdescs
                          /\ \A i \in 1..jobdescs[d].foreach :
                                 \E q \in 1..(p - 1) : applied[q] = << d, i >>
            /\ ~call.result.raised =>
                   \A j \in closure : \A i \in 1..jobdescs[j].foreach :
                       \E p \in DOMAIN applied : applied[p] = << j, i >>
            /\ call.result.raised <=> Undefined \in closure

\* C is reached through A -> B -> C and through A -> C
C28_Witness ==
    /\ call.fn = "_add_filecombinations" /\ "result" \in DOMAIN call
    /\ call.job = "A"
    /\ call.jobdescs.A.depends = << "B", "C" >>
    /\ call.jobdescs.B.depends = << "C" >>
    /\ call.jobdescs.C.foreach = 2 /\ call.jobdescs.A.foreach = 1
    /\ call.jobdescs.B.foreach = 1
    /\ call.result.applied = << <<"C", 1>>, <<"C", 2>>, <<"B", 1>>, <<"A", 1>> >>

(***************************************************************************)
(* helpers.deepupdate and the merge of a definition with its parent in     *)
(* JobList._add_inheritance, on values of YAML: scalars (numbers and       *)
(* strings), mappings and sequences.  A mapping is the sequence of its     *)
(* keys, in the order of the dict, and the sequence of their values; its   *)
(* keys are strings.  A string is the sequence of its characters.          *)
(***************************************************************************)
\* longest sequence of a value
MaxItems == 2

\* the number n
Scalar(n) ==
    [kind |-> "scalar", scalar |-> n, chars |-> <<>>, keys |-> <<>>, items |-> <<>>]
\* the string of the characters chars
Str(chars) ==
    [kind |-> "str", scalar |-> 0, chars |-> chars, keys |-> <<>>, items |-> <<>>]
Mapping(keys, items) ==
    [kind |-> "map", scalar |-> 0, chars |-> <<>>, keys |-> keys, items |-> items]
List(items) ==
    [kind |-> "list", scalar |-> 0, chars |-> <<>>, keys |-> <<>>, items |-> items]

\* the numbers 1 and 2 and the string "yz"
Scalars == { Scalar(1), Scalar(2), Str(<< "y", "z" >>) }

\* the values without a container in a container
FlatValues ==
    Scalars \cup { Mapping(<<>>, <<>>), List(<<>>) }
            \cup { Mapping(<< "k" >>, << s >>) : s \in Scalars }
            \cup { List(<< s >>) : s \in Scalars }

\* the mappings with keys of "k" and "l" and flat values
MappingValues ==
    { Mapping(<<>>, <<>>) }
        \cup { Mapping(<< key >>, << v >>) : key \in {"k", "l"}, v \in FlatValues }
        \cup { Mapping(<< "k", "l" >>, << v, w >>) : v, w \in FlatValues }

\* the sequences of at most MaxItems flat values
ListValues ==
    { List(<<>>) } \cup { List(<< v >>) : v \in FlatValues }
                   \cup { List(<< v, w >>) : v, w \in FlatValues }

Values == Scalars \cup MappingValues \cup ListValues

\* k in m and m[k] for a dict
HasKey(m, k) == \E i \in DOMAIN m.keys : m.keys[i] = k
Lookup(m, k) == m.items[CHOOSE i \in DOMAIN m.keys : m.keys[i] = k]

\* the positions of the keys of `new` that `base` has not, in their order
NewKeys(base, new) ==
    LET Added(i) == ~HasKey(base, new.keys[i])
    IN  SelectSeq([i \in 1..Len(new.keys) |-> i], Added)

Returned(value) == [raised |-> FALSE, value |-> value]
Raised(base) == [raised |-> TRUE, value |-> base]

\* an update that keeps the scalar of base
ScalarUpdate_Kept(base, new) == base

\* helpers.deepupdate, lines 37-38: base is neither a dict nor a list
ScalarUpdate(base, new) == new

\* len(new) and new[i] of lines 31-36 for a string: its characters, each a
\* string of length one
Characters(new) == [i \in 1..Len(new.chars) |-> Str(<< new.chars[i] >>)]

\* helpers.deepupdate(base, new), lines 21-39: what it returns, or that it
\* raises (a TypeError, an AttributeError or a KeyError).  A dict as base
\* raises with every new that is not a dict (new[k] or new.items()).  A
\* list as base raises with a number (len(new)) and with a dict that is not
\* empty (new[i] for a number i); with a string it is merged with the
\* characters of the string, position by position, and with an empty dict
\* it is returned as it is.
RECURSIVE deepupdate(_, _)
deepupdate(base, new) ==
    IF base.kind = "map"
    THEN IF new.kind # "map" THEN Raised(base)
         ELSE LET merged == [i \in 1..Len(base.keys) |->
                               IF HasKey(new, base.keys[i])
                               THEN deepupdate(base.items[i], Lookup(new, base.keys[i]))
                               ELSE Returned(base.items[i])]
                  added == NewKeys(base, new)
              IN  IF \E i \in 1..Len(base.keys) : merged[i].raised THEN Raised(base)
                  ELSE Returned(Mapping(
                           base.keys \o [j \in 1..Len(added) |-> new.keys[added[j]]],
                           [i \in 1..Len(base.keys) |-> merged[i].value]
                               \o [j \in 1..Len(added) |-> new.items[added[j]]]))
    ELSE IF base.kind = "list"
    THEN IF new.kind = "scalar" THEN Raised(base)
         ELSE IF new.kind = "map"
              THEN IF new.keys = <<>> THEN Returned(base) ELSE Raised(base)
         ELSE LET items == IF new.kind = "str" THEN Characters(new) ELSE new.items
                  both == IF Len(base.items) < Len(items)
                          THEN Len(base.items) ELSE Len(items)
                  merged == [i \in 1..both |-> deepupdate(base.items[i], items[i])]
              IN  IF \E i \in 1..both : merged[i].raised THEN Raised(base)
                  ELSE Returned(List(
                           [i \in 1..both |-> merged[i].value]
                               \o SubSeq(base.items, both + 1, Len(base.items))
                               \o SubSeq(items, both + 1, Len(items))))
    ELSE Returned(ScalarUpdate(base, new))

\* JobList._add_inheritance, lines 187-191: the properties of the parent's
\* copy are merged into the definition of the child
MergeParent(parent, jobdesc) ==
    LET merged == [i \in 1..Len(jobdesc.keys) |->
                      IF HasKey(parent, jobdesc.keys[i])
                      THEN deepupdate(Lookup(parent, jobdesc.keys[i]), jobdesc.items[i])
                      ELSE Returned(jobdesc.items[i])]
        added == NewKeys(jobdesc, parent)
    IN  IF \E i \in 1..Len(jobdesc.keys) : merged[i].raised THEN Raised(jobdesc)
        ELSE Returned(Mapping(
                 jobdesc.keys \o [j \in 1..Len(added) |-> parent.keys[added[j]]],
                 [i \in 1..Len(jobdesc.keys) |-> merged[i].value]
                     \o [j \in 1..Len(added) |-> parent.items[added[j]]]))

\* the definition without parent of the configurations
Grandparent == Mapping(<< "k", "g" >>, << Scalar(1), Scalar(1) >>)

\* the definition of the parent with the copy taken of it
ParentCopy_Merged(parent, merged) == merged

\* line 187: deepcopy(parent): what deepupdate does to its base is done to
\* the copy, the parent's definition is as it was
ParentCopy(parent, merged) == parent

\* JobList._add_inheritance("C") for C that inherits from P, which inherits
\* from G or from no job; the properties other than "inherits" are the
\* mapping `properties`
AddInheritanceOf(jobdescs) ==
    LET p == IF jobdescs.P.inherits = "G"
             THEN MergeParent(jobdescs.G.properties, jobdescs.P.properties)
             ELSE Returned(jobdescs.P.properties)
        c == MergeParent(p.value, jobdescs.C.properties)
    IN  IF p.raised \/ c.raised THEN [raised |-> TRUE, jobdescs |-> jobdescs]
        ELSE [raised |-> FALSE,
              jobdescs |-> [G |-> jobdescs.G,
                            P |-> [inherits |-> "",
                                   properties |-> ParentCopy(p.value, c.value)],
                            C |-> [inherits |-> "", properties |-> c.value]]]

InitDeepupdate ==
    /\ usePyslurm = FALSE
    /\ Fresh
    /\ \/ \E base \in Values, new \in Values :
              call = [fn |-> "deepupdate", base |-> base, new |-> new]
       \/ \E p \in MappingValues, c \in MappingValues, inherits \in {"", "G"} :
              call = [fn |-> "_add_inheritance",
                      jobdescs |-> [G |-> [inherits |-> "", properties |-> Grandparent],
                                    P |-> [inherits |-> inherits, properties |-> p],
                                    C |-> [inherits |-> "P", properties |-> c]]]

\* deepupdate(deepcopy(base), new) returns or raises
ApplyDeepupdate ==
    /\ call.fn = "deepupdate"
    /\ "result" \notin DOMAIN call
    /\ call' = [fn |-> "deepupdate", base |-> call.base, new |-> call.new,
                result |-> deepupdate(call.base, call.new)]
    /\ UNCHANGED invocation

\* joblist._add_inheritance("C") returns or raises
ApplyAddInheritance ==
    /\ call.fn = "_add_inheritance"
    /\ "result" \notin DOMAIN call
    /\ call' = [fn |-> "_add_inheritance", jobdescs |-> call.jobdescs,
                result |-> AddInheritanceOf(call.jobdescs)]
    /\ UNCHANGED invocation

SpecDeepupdate == InitDeepupdate /\ [][ApplyDeepupdate \/ ApplyAddInheritance]_vars

\* the keys of a mapping
MappingKeys(m) == { m.keys[i] : i \in DOMAIN m.keys }

\* a scalar (a number or a string), a mapping or a sequence
KindOf(value) == IF value.kind = "str" THEN "scalar" ELSE value.kind

\* base and new are of the same kind, and so are the values they hold under
\* the same key or at the same position
RECURSIVE SameKinds(_, _)
SameKinds(base, new) ==
    /\ KindOf(base) = KindOf(new)
    /\ base.kind = "map" =>
           \A k \in MappingKeys(base) \cap MappingKeys(new) :
               SameKinds(Lookup(base, k), Lookup(new, k))
    /\ base.kind = "list" =>
           \A i \in (DOMAIN base.items) \cap (DOMAIN new.items) :
               SameKinds(base.items[i], new.items[i])

\* r is the merge of new over base: the scalar of new; for mappings the
\* keys of both, a key of one of them with the value it has there, a key of
\* both with the merge of the two values; for sequences as many items as
\* the longer has, a position of both with the merge of the two items, a
\* position of one with the item it has there
RECURSIVE IsMerge(_, _, _)
IsMerge(base, new, r) ==
    IF KindOf(base) = "scalar" THEN r = new
    ELSE IF KindOf(base) # KindOf(new) THEN TRUE
    ELSE IF base.kind = "map"
    THEN /\ r.kind = "map"
         /\ MappingKeys(r) = MappingKeys(base) \cup MappingKeys(new)
         /\ Len(r.keys) = Cardinality(MappingKeys(r))
         /\ \A k \in MappingKeys(r) :
                IF k \notin MappingKeys(new) THEN Lookup(r, k) = Lookup(base, k)
                ELSE IF k \notin MappingKeys(base) THEN Lookup(r, k) = Lookup(new, k)
                ELSE IsMerge(Lookup(base, k), Lookup(new, k), Lookup(r, k))
    ELSE /\ r.kind = "list"
         /\ Len(r.items) = IF Len(base.items) > Len(new.items)
                           THEN Len(base.items) ELSE Len(new.items)
         /\ \A i \in DOMAIN r.items :
                IF i > Len(new.items) THEN r.items[i] = base.items[i]
                ELSE IF i > Len(base.items) THEN r.items[i] = new.items[i]
                ELSE IsMerge(base.items[i], new.items[i], r.items[i])

\* deepupdate has returned for values of the same kinds
Merged ==
    /\ call.fn = "deepupdate" /\ "result" \in DOMAIN call
    /\ SameKinds(call.base, call.new)

\* _add_inheritance("C") has returned
Resolved ==
    /\ call.fn = "_add_inheritance" /\ "result" \in DOMAIN call
    /\ ~call.result.raised

\* the definition of C is the merge of its own over the one of its parent
ChildIsMerged ==
    IsMerge(call.result.jobdescs.P.properties, call.jobdescs.C.properties,
            call.result.jobdescs.C.properties)

\* C29, as stated: deepupdate(parentCopy, child) gives the scalar of the
\* child where both have a scalar, the key-wise recursive merge of
\* mappings (a key of the parent only is kept, a key of the child only is
\* added) and for sequences the position-wise recursive merge followed by
\* the further items of the child (as many items as the longer has);
\* resolving a child leaves the definition of its parent as it was.
C29_MergeLeavesParentUnchanged ==
    /\ Merged => (~call.result.raised
                    /\ IsMerge(call.base, call.new, call.result.value))
    /\ Resolved => /\ ChildIsMerged
                   /\ call.result.jobdescs.P = call.jobdescs.P

\* C29, amended: the merge is as stated; resolving a child leaves the
\* definition of a parent that has no parent itself as it was, and a parent
\* that inherits is resolved first: its definition becomes the merge of
\* its own over the one of its parent, without "inherits" and with nothing
\* of the child.
C29_MergeWritesToChildOnly ==
    /\ Merged => (~call.result.raised
                    /\ IsMerge(call.base, call.new, call.result.value))
    /\ Resolved =>
           /\ ChildIsMerged
           /\ call.result.jobdescs.G = call.jobdescs.G
           /\ call.result.jobdescs.C.inherits = ""
           /\ IF call.jobdescs.P.inherits = ""
              THEN call.result.jobdescs.P = call.jobdescs.P
              ELSE /\ call.result.jobdescs.P.inherits = ""
                   /\ IsMerge(call.jobdescs.G.properties, call.jobdescs.P.properties,
                              call.result.jobdescs.P.properties)

\* a child is resolved whose parent inherits: the parent gets the
\* properties of its own parent, the child those of both
C29_Witness ==
    /\ Resolved
    /\ call.jobdescs.P.inherits = "G"
    /\ call.jobdescs.P.properties = Mapping(<< "l" >>, << List(<< Scalar(1) >>) >>)
    /\ call.jobdescs.C.properties = Mapping(<< "l" >>, << List(<< Scalar(2) >>) >>)
    /\ call.result.jobdescs.P.properties =
           Mapping(<< "l", "k", "g" >>, << List(<< Scalar(1) >>), Scalar(1), Scalar(1) >>)
    /\ call.result.jobdescs.C.properties =
           Mapping(<< "l", "k", "g" >>, << List(<< Scalar(2) >>), Scalar(1), Scalar(1) >>)

\* a merge of sequences: the first items are merged, the second is added
C29_MergedSequences ==
    /\ Merged
    /\ call.base = List(<< Mapping(<< "k" >>, << Scalar(1) >>) >>)
    /\ call.new = List(<< Mapping(<< "k" >>, << Scalar(2) >>), Scalar(2) >>)
    /\ call.result.value = call.new

\* a string over a sequence: the string is merged character by character
C29_StringOverSequence ==
    /\ call.fn = "deepupdate" /\ "result" \in DOMAIN call
    /\ call.base = List(<< Scalar(1) >>)
    /\ call.new = Str(<< "y", "z" >>)
    /\ call.result = Returned(List(<< Str(<< "y" >>), Str(<< "z" >>) >>))

\* a child with a string where its parent has a sequence is resolved
C29_ResolvedStringOverSequence ==
    /\ Resolved
    /\ call.jobdescs.P.inherits = ""
    /\ call.jobdescs.P.properties = Mapping(<< "l" >>, << List(<< Scalar(1) >>) >>)
    /\ call.jobdescs.C.properties = Mapping(<< "l" >>, << Str(<< "y", "z" >>) >>)
    /\ call.result.jobdescs.C.properties =
           Mapping(<< "l" >>, << List(<< Str(<< "y" >>), Str(<< "z" >>) >>) >>)
    /\ call.result.jobdescs.P = call.jobdescs.P

\* the jobs a job of the configuration depends on, directly
DirectDependencies(jobname) ==
    { JobDescs[jobname].depends[i].job : i \in DOMAIN JobDescs[jobname].depends }

\* the jobs reached from the jobs of S through at most n dependencies
RECURSIVE ReachedJobs(_, _)
ReachedJobs(S, n) ==
    IF n = 0 THEN S
    ELSE ReachedJobs(S \cup UNION { DirectDependencies(j) : j \in S }, n - 1)

\* a job and its transitive dependencies
ClosureOfJob(jobname) == ReachedJobs({jobname}, Cardinality(JobNames))

\* the slices of the ledger that a step changes
ChangedSlices ==
    { j \in (DOMAIN former_runs) \cup (DOMAIN former_runs') :
        \/ j \notin DOMAIN former_runs
        \/ j \notin DOMAIN former_runs'
        \/ former_runs'[j] # former_runs[j] }

\* C30: while schedule_tree runs, a step changes the ledger only in the
\* slice of the job whose Job object takes the step, and that job is the job
\* of every schedule_tree call in progress or in its transitive dependencies
C30_JobWritesOwnSlice ==
    [][(pc = "run" /\ pc' # "idle") =>
          \A j \in ChangedSlices :
              /\ j \in DOMAIN former_runs /\ j \in DOMAIN former_runs'
              /\ j = Top.job
              /\ last'.job = j
              /\ \A i \in 1..Len(stack) : j \in ClosureOfJob(stack[i].job)
              /\ \A c \in DOMAIN former_runs[j] : c \in DOMAIN former_runs'[j]]_vars

\* D, a dependency of A and of B, has its slice written by its own Job in
\* the call made through A -> B -> D
C30_Witness ==
    /\ pc = "run" /\ Len(stack) = 3
    /\ stack[1].job = "A" /\ stack[2].job = "B" /\ Top.job = "D"
    /\ last.kind = "schedule" /\ last.job = "D"
    /\ Entry(former_runs, "D", last.c) = { SubmittedEntry(last.id) }
    /\ former_runs["A"] = NoEntries

(***************************************************************************)
(* Claims C31 to C33                                                       *)
(***************************************************************************)
\* the call of frame f has found its combination eligible: the run has
\* failed, the call is forced or the ledger had no entry for it
FoundEligible(f) == f.state = FAILED \/ f.forcestart \/ f.before = {}

\* no combination of the requested job has been found eligible so far
NothingToSubmit ==
    /\ pc \in {"run", "done"} /\ Len(stack) = 1
    /\ Top.phase = "loop"
    /\ \A x \in DOMAIN schedCalls : x[1] # RootJob

\* C32: for a combination that is not eligible (it has a ledger entry, its
\* state is not FAILED and the call is not forced) schedule_tree does not
\* call its dependencies: every call in progress below a frame is made for
\* a combination that frame found eligible, a skipped combination has run
\* no step of a dependency, and while the requested job has had nothing but
\* skipped combinations no other job is visited, asked about or submitted
C32_SkippedDoesNotRecurse ==
    /\ \A i \in 1..(Len(stack) - 1) :
           stack[i].phase = "deps" /\ FoundEligible(stack[i])
    /\ (pc = "run" /\ Top.phase \in {"init", "deps"}) => FoundEligible(Top)
    /\ (last.kind \in {"visit", "skip"} /\ last.before # {}
            /\ last.state # FAILED /\ ~last.forcestart)
           => (last.kind = "skip" /\ last.events = <<>> /\ Top.phase = "loop")
    /\ NothingToSubmit =>
           /\ \A x \in visited \cup queried : x[1] = RootJob
           /\ schedCalls = [x \in {} |-> 0]

\* the requested job A is skipped in a second invocation although the run
\* file holds runs of its dependencies: none of them is visited
C32_Witness ==
    /\ NothingToSubmit /\ pc = "done" /\ inv = 2
    /\ RootJob = "A" /\ ~RootForce
    /\ visited = { << "A", [a |-> 1] >>, << "A", [a |-> 2] >> }
    /\ Entry(disk, "D", EmptyCombination) # {}
    /\ Entry(disk, "B", [a |-> 1]) # {}
    /\ queried # {}

\* the combinations of a job that agree with the projection p its
\* schedule_tree is called with: the assignments of the job's variables
\* taken from a possible combination that has the values of p
AgreeingCombinations(jobname, p) ==
    { [k \in JobVariables(jobname) |-> Possible[n][k]] :
        n \in { i \in 1..Len(Possible) :
                  \A k \in (DOMAIN p) \cap JobVariables(jobname) :
                      Possible[i][k] = p[k] } }

\* the projection the call that has just returned was made with
ReturnedProjection ==
    IF last.kind = "finish" THEN EmptyCombination
    ELSE Projection(last.c,
                    JobDescs[Top.job].depends[last.inst[Len(last.inst)]].foreach)

\* C33: when a schedule_tree call on a job returns, every combination of
\* the job that agrees with the projection of the call has a ledger entry,
\* the returned identifiers are the ledger identifiers of these
\* combinations (without the index of a run of an array), and every key of
\* the ledger is an assignment of exactly the variables of its job
C33_ReturnedAreLedgerIds ==
    /\ (pc \in {"run", "done"} /\ last.kind \in {"return", "finish"}) =>
           LET cs == AgreeingCombinations(last.job, ReturnedProjection)
           IN  /\ cs # {}
               /\ \A c \in cs : c \in DOMAIN former_runs[last.job]
               /\ last.ids = { IF JobArray(last.job)
                               THEN CutSuffix(former_runs[last.job][c].id)
                               ELSE former_runs[last.job][c].id : c \in cs }
    /\ \A j \in DOMAIN former_runs : \A c \in DOMAIN former_runs[j] :
           DOMAIN c = JobVariables(j)
    /\ \A j \in DOMAIN disk : \A c \in DOMAIN disk[j] : DOMAIN c = JobVariables(j)

\* the call for B made for A's combination a = 2 returns the identifier of
\* B's run for a = 2 alone, after the one for a = 1 has returned
C33_Witness ==
    /\ pc = "run" /\ last.kind = "return" /\ last.job = "B"
    /\ last.c = [a |-> 2] /\ executor = "slurm"
    /\ [a |-> 1] \in DOMAIN former_runs["B"]
    /\ last.ids = { former_runs["B"][[a |-> 2]].id }
    /\ last.ids # { former_runs["B"][[a |-> 1]].id }

(***************************************************************************)
(* JobList.get_job step by step: the recursion of _add_inheritance with    *)
(* its stack of calls, on configurations that may have cycles.             *)
(***************************************************************************)
\* the recursion limit of the interpreter (sys.getrecursionlimit() is 1000),
\* scaled to the three jobs of the configurations: no walk of a
\* configuration without cycle is that deep
RecursionLimit == 5

\* the definitions of a job: it inherits from any job, itself or the name
\* without definition, or from none, and depends on at most one of them
WalkConfigurations ==
    LET names == { ConfigNames[i] : i \in DOMAIN ConfigNames } \cup { Undefined }
        descs == { JobDesc({"code"}, inherits, depends) :
                     inherits \in names \cup {""},
                     depends \in DependsLists(names, MaxDepends) }
    IN  [ { ConfigNames[i] : i \in DOMAIN ConfigNames } -> descs ]

\* a call that looks for the job among the calls in progress and reports
\* the cycle
CallAddInheritance_ReportingCycle(c, stack_, jobname) ==
    IF \E i \in 1..Len(stack_) : stack_[i].job = jobname
    THEN [c EXCEPT !.status = "Cycle"]
    ELSE [c EXCEPT !.stack = Append(stack_, [job |-> jobname, at |-> "enter", i |-> 1])]

\* a call of _add_inheritance(jobname) is made from the calls of `stack`:
\* the interpreter raises RecursionError when the stack is full
CallAddInheritance(c, stack_, jobname) ==
    IF Len(stack_) >= RecursionLimit
    THEN [c EXCEPT !.status = "RecursionError"]
    ELSE [c EXCEPT !.stack = Append(stack_, [job |-> jobname, at |-> "enter", i |-> 1])]

\* one step of the innermost call of _add_inheritance, lines 183-195
StepOfAddInheritance(c) ==
    LET n == Len(c.stack)
        f == c.stack[n]
        at(p, i) == [c.stack EXCEPT ![n] = [f EXCEPT !.at = p, !.i = i]]
    IN  IF f.at = "enter"
        THEN IF UnknownJob(c.jobdescs, f.job) THEN [c EXCEPT !.status = "Unknown job"]
             ELSE IF "inherits" \in c.jobdescs[f.job].keys
             THEN CallAddInheritance(c, at("parent", 1), c.jobdescs[f.job].inherits)
             ELSE [c EXCEPT !.stack = at("depends", 1)]
        ELSE IF f.at = "parent"
        THEN [c EXCEPT !.jobdescs[f.job] =
                           DelInherits(Inherit(c.jobdescs[c.jobdescs[f.job].inherits],
                                               c.jobdescs[f.job])),
                       !.stack = at("depends", 1)]
        ELSE IF f.i <= Len(c.jobdescs[f.job].depends)
        THEN CallAddInheritance(c, at("depends", f.i + 1), c.jobdescs[f.job].depends[f.i])
        ELSE IF n > 1 THEN [c EXCEPT !.stack = SubSeq(c.stack, 1, n - 1)]
        ELSE [c EXCEPT !.stack = <<>>, !.status = "inherited"]

InitGetJob ==
    /\ usePyslurm = FALSE
    /\ Fresh
    /\ \E given \in WalkConfigurations :
           call = [fn |-> "get_job", given |-> given, job |-> "A",
                   jobdescs |-> given, status |-> "walking",
                   stack |-> << [job |-> "A", at |-> "enter", i |-> 1] >>]

\* get_job, line 179: _add_inheritance takes a step
StepAddInheritance ==
    /\ call.fn = "get_job" /\ call.status = "walking"
    /\ call' = StepOfAddInheritance(call)
    /\ UNCHANGED invocation

\* get_job, lines 180-181: _add_filecombinations and _setup_job walk the
\* resolved definitions; get_job returns the Job or raises
ReturnGetJob ==
    /\ call.fn = "get_job" /\ call.status = "inherited"
    /\ call' = [call EXCEPT !.status =
                   IF FilecombinationsRaises(call.jobdescs, call.job)
                   THEN "Unknown job"
                   ELSE IF setup_job(call.jobdescs, call.job).raised
                        THEN "Unknown property" ELSE "returned"]
    /\ UNCHANGED invocation

\* one invocation of `jobsched run`, or one call of get_job
NextTermination ==
    \/ call = NoCall /\ Next /\ inv' <= 1
    \/ StepAddInheritance
    \/ ReturnGetJob

\* a call that is made returns: sacct and sbatch do not fail for ever and
\* the prompt is answered
ProgressOfScheduleTree ==
    \/ \E c \in Todo : Visit(c)
    \/ CallDependency
    \/ \E result \in ScheduleResults(executor, usePyslurm) : ScheduleRun(result)
    \/ \E result \in {"ok", "raise"} : Return(result)
    \/ \E result \in {"ok", "raise"} : Finish(result)

SpecTermination ==
    /\ Init \/ InitGetJob
    /\ [][NextTermination]_vars
    /\ WF_vars(StepAddInheritance \/ ReturnGetJob)
    /\ WF_vars(PressEnter)
    /\ SF_vars(call = NoCall /\ ProgressOfScheduleTree)

\* the jobs a definition of the configuration names: its parent and its
\* dependencies
NamedBy(given, jobname) ==
    IF jobname \notin DOMAIN given THEN {}
    ELSE (IF given[jobname].inherits = "" THEN {} ELSE { given[jobname].inherits })
             \cup { given[jobname].depends[i] : i \in DOMAIN given[jobname].depends }

\* the jobs reached from the jobs of S along at most n such edges
RECURSIVE ReachedAlong(_, _, _)
ReachedAlong(given, S, n) ==
    IF n = 0 THEN S
    ELSE ReachedAlong(given, S \cup UNION { NamedBy(given, j) : j \in S }, n - 1)

ReachedFromJob(given, jobname) ==
    ReachedAlong(given, {jobname}, Len(ConfigNames) + 1)

\* the job lies on a cycle of inheritance and dependency edges
OnCycle(given, jobname) ==
    jobname \in ReachedAlong(given, NamedBy(given, jobname), Len(ConfigNames) + 1)

\* the configuration has a cycle; the requested job reaches one
HasCycle(given) == \E j \in DOMAIN given : OnCycle(given, j)
ReachesCycle(given, jobname) ==
    \E j \in ReachedFromJob(given, jobname) : OnCycle(given, j)

\* get_job has been called and is left, by return or by an exception
GetJobCalled == call.fn = "get_job"
GetJob ==
    IF GetJobCalled THEN call
    ELSE [fn |-> "none", given |-> << >>, job |-> "", status |-> "none", stack |-> << >>]
GetJobLeft == GetJobCalled /\ GetJob.status \notin {"walking", "inherited"}

\* the invocation of `jobsched run` comes to its end
ScheduleTreeTerminates == (pc = "run") ~> (pc \in {"done", "aborted"})

\* C31, as stated: on a configuration whose inheritance or dependency edges
\* have a cycle get_job recurses without bound, it never completes and
\* reports no error; on every configuration without cycle get_job
\* terminates, and so does schedule_tree when the calls of the executor and
\* of the resolver return.
C31_CycleNeverCompletes ==
    /\ []((GetJobCalled /\ HasCycle(GetJob.given)) => GetJob.status = "walking")
    /\ (GetJobCalled /\ ~HasCycle(GetJob.given)) ~> GetJobLeft
    /\ ScheduleTreeTerminates

\* C31, amended: get_job is left by the interpreter's RecursionError, and
\* only then, when the requested job reaches a cycle and the walk does not
\* meet a name without definition first, which it reports as an unknown
\* job; the cycle itself is never reported and get_job never returns a Job
\* then.  A cycle the requested job does not reach has no effect.  When the
\* requested job reaches no cycle get_job returns or reports a
\* configuration error, and schedule_tree terminates when the calls of the
\* executor and of the resolver return.
C31_CycleEndsInRecursionError ==
    /\ []((GetJobCalled /\ GetJob.status = "RecursionError")
             => ReachesCycle(GetJob.given, GetJob.job))
    /\ []((GetJobCalled /\ ReachesCycle(GetJob.given, GetJob.job))
             => GetJob.status \in {"walking", "RecursionError", "Unknown job"})
    /\ []((GetJobCalled /\ GetJob.status = "Unknown job")
             => Undefined \in ReachedFromJob(GetJob.given, GetJob.job))
    /\ (GetJobCalled /\ ReachesCycle(GetJob.given, GetJob.job)
           /\ Undefined \notin ReachedFromJob(GetJob.given, GetJob.job))
          ~> (GetJob.status = "RecursionError")
    /\ (GetJobCalled /\ ~ReachesCycle(GetJob.given, GetJob.job))
          ~> (GetJob.status \in {"returned", "Unknown job"})
    /\ ScheduleTreeTerminates

\* A depends on B, which inherits from A: the recursion has filled the
\* stack of the interpreter
C31_Witness ==
    /\ GetJobCalled /\ GetJob.status = "RecursionError"
    /\ GetJob.given.A.depends = << "B" >> /\ GetJob.given.A.inherits = ""
    /\ GetJob.given.B.inherits = "A"
    /\ Len(GetJob.stack) = RecursionLimit

\* get_job returns although B and C inherit from each other
C31_CycleOutOfReach ==
    /\ GetJobCalled /\ GetJob.status = "returned"
    /\ GetJob.given.B.inherits = "C" /\ GetJob.given.C.inherits = "B"

====
